---------------------------- MODULE Spec2Model ----------------------------
(***************************************************************************)
(* A model of the FreeSurfer BIDS App: one command-line run of src/run.py  *)
(* (cli, initialize, process_participant, process_session,                 *)
(* nidm_conversion) and the FreeSurferWrapper of src/freesurfer/wrapper.py *)
(* (process_subject and its helpers).                                      *)
(*                                                                         *)
(* Strings are sequences of one-character strings, so that startswith,    *)
(* slicing, concatenation, Path.suffix and Path.with_suffix are computed   *)
(* as Python computes them.  The two external programs (recon-all and the  *)
(* converter segstats_jsonld.fs_to_nidm) and the file system are the       *)
(* environment: an action that waits for one of them draws its outcome     *)
(* from a small set.                                                       *)
(***************************************************************************)
EXTENDS Naturals, Sequences, FiniteSets

(***************************************************************************)
(* Bounds of the model.                                                    *)
(***************************************************************************)
\* direct calls of process_subject on one wrapper in one behaviour
MaxCalls == 2
MaxOrganize == 2
MaxImages == 3
MaxWrappers == 2
MaxRuns == 2

(***************************************************************************)
(* Strings.                                                                *)
(***************************************************************************)
SUB == <<"s", "u", "b", "-">>
SES == <<"s", "e", "s", "-">>
USES == <<"_">> \o SES
DOT == "."
EXT_TTL == <<".", "t", "t", "l">>
EXT_JSON == <<".", "j", "s", "o", "n">>
EXT_JSONLD == <<".", "j", "s", "o", "n", "l", "d">>
EXT_JSON_LD == <<".", "j", "s", "o", "n", "-", "l", "d">>
EXT_TURTLE == <<".", "t", "u", "r", "t", "l", "e">>
EXT_N3 == <<".", "n", "3">>
EMPTY == << >>

\* str.startswith(p)
StartsWith(s, p) == Len(s) >= Len(p) /\ SubSeq(s, 1, Len(p)) = p

\* str.endswith(p)
EndsWith(s, p) == Len(s) >= Len(p) /\ SubSeq(s, Len(s) - Len(p) + 1, Len(s)) = p

\* s[4:]
Slice4(s) == SubSeq(s, 5, Len(s))

\* bool(s) of a string or None: the absent value None is modelled by the
\* empty string, which Python treats alike in every test the code makes
Truthy(s) == Len(s) > 0

\* str.lower(), on the characters the model uses
LowerChar(c) ==
    CASE c = "T" -> "t"
      [] c = "L" -> "l"
      [] OTHER -> c

Lower(s) == [i \in 1..Len(s) |-> LowerChar(s[i])]

\* str.rfind("."), 1-based; 0 when there is no dot
LastDot(s) ==
    IF \E i \in 1..Len(s) : s[i] = DOT
    THEN CHOOSE i \in 1..Len(s) : s[i] = DOT /\ \A j \in (i + 1)..Len(s) : s[j] # DOT
    ELSE 0

\* PurePath.suffix of a file name: the last dot and what follows it, unless
\* the dot is the first or the last character
Suffix(name) ==
    LET i == LastDot(name)
    IN IF i > 1 /\ i < Len(name) THEN SubSeq(name, i, Len(name)) ELSE EMPTY

\* PurePath.with_suffix(suffix) on the last path component
WithSuffix(name, suffix) ==
    SubSeq(name, 1, Len(name) - Len(Suffix(name))) \o suffix

(***************************************************************************)
(* The BIDS dataset, as the query layer reports it.  An image has the      *)
(* subject and session entities of its file name ("" for no session), a    *)
(* suffix and a path; ord is the rank of its path in the sorted listing.   *)
(***************************************************************************)
Img(sub, ses, suffix, path, ord) ==
    [sub |-> sub, ses |-> ses, suffix |-> suffix, path |-> path, ord |-> ord]

L1 == <<"1">>
L2 == <<"2">>
L3 == <<"3">>
LDOT == <<"1", ".", "5">>
SA == <<"A">>
SB == <<"B">>

\* sub-1 has sessions A (T1w and T2w) and B (no anatomical image), sub-2
\* has no session and two T1w images, sub-3 has no anatomical image
DatasetSessions ==
    { Img(L1, SA, "T1w", <<"a">>, 1), Img(L1, SA, "T2w", <<"b">>, 2),
      Img(L1, SB, "bold", <<"c">>, 3),
      Img(L2, EMPTY, "T1w", <<"d">>, 4), Img(L2, EMPTY, "T1w", <<"e">>, 5),
      Img(L3, EMPTY, "bold", <<"f">>, 6) }

\* a single-session dataset: sub-1 with a T1w and two T2w images
DatasetFlat ==
    { Img(L1, EMPTY, "T1w", <<"a">>, 1), Img(L1, EMPTY, "T2w", <<"b">>, 2),
      Img(L1, EMPTY, "T2w", <<"c">>, 3), Img(L3, EMPTY, "bold", <<"f">>, 6) }

Datasets == {DatasetSessions, DatasetFlat}

\* BIDSLayout.get_subjects()
GetSubjects(layout) == {i.sub : i \in layout}

\* BIDSLayout.get_sessions(subject=...)
GetSessions(layout, subject) ==
    {i.ses : i \in {j \in layout : j.sub = subject /\ j.ses # EMPTY}}

\* a set of images as the sorted list BIDSLayout.get(return_type="file") gives
RECURSIVE SortedPaths(_)
SortedPaths(S) ==
    IF S = {} THEN << >>
    ELSE LET m == CHOOSE i \in S : \A j \in S : i.ord <= j.ord
         IN <<m.path>> \o SortedPaths(S \ {m})


\* BIDSLayout.get(return_type="file", subject=, datatype="anat", suffix=,
\* extension=[".nii", ".nii.gz"][, session=]) as _find_images asks it: the
\* session filter is added only for a truthy session_id
_find_images(layout, subject_id, suffix, session_id) ==
    SortedPaths({i \in layout :
                   /\ i.sub = subject_id
                   /\ i.suffix = suffix
                   /\ (Truthy(session_id) => i.ses = session_id)})

(***************************************************************************)
(* Finite maps (Python dicts, directories) and command lines.              *)
(***************************************************************************)
EmptyMap == << >>

Put(m, k, v) == [x \in (DOMAIN m) \cup {k} |-> IF x = k THEN v ELSE m[x]]

\* the elements of a command list: a literal argument, a computed string, or
\* a path <dir>/<name> below one of the run's directories
Lit(s) == [kind |-> "lit", text |-> s, name |-> EMPTY]
Str(n) == [kind |-> "str", text |-> "", name |-> n]
PathTok(dir, n) == [kind |-> "path", text |-> dir, name |-> n]

RECURSIVE InputArgs(_)
InputArgs(t1w_images) ==
    IF t1w_images = << >> THEN << >>
    ELSE <<Lit("-i"), Str(Head(t1w_images))>> \o InputArgs(Tail(t1w_images))

(***************************************************************************)
(* FreeSurferWrapper.                                                      *)
(***************************************************************************)
\* the FreeSurfer subject ID _create_recon_all_command gives recon-all
ReconSubjectId(subject_id, session_label) ==
    IF Truthy(session_label) THEN subject_id \o USES \o session_label ELSE subject_id

\* a variant that hands every T2w image to recon-all
_create_recon_all_command_EveryT2(subject_id, t1w_images, t2w_images, session_label) ==
    <<Lit("recon-all"), Lit("-subjid"), Str(ReconSubjectId(subject_id, session_label))>>
        \o InputArgs(t1w_images)
        \o [i \in 1..(3 * Len(t2w_images)) |->
              IF i % 3 = 1 THEN Lit("-T2")
              ELSE IF i % 3 = 2 THEN Str(t2w_images[(i + 1) \div 3])
              ELSE Lit("-T2pial")]
        \o <<Lit("-all")>>

_create_recon_all_command(subject_id, t1w_images, t2w_images, session_label) ==
    <<Lit("recon-all"), Lit("-subjid"), Str(ReconSubjectId(subject_id, session_label))>>
        \o InputArgs(t1w_images)
        \o (IF Len(t2w_images) > 0
            THEN <<Lit("-T2"), Str(t2w_images[1]), Lit("-T2pial")>>
            ELSE << >>)
        \o <<Lit("-all")>>

\* the local bids_session of process_subject before its first assignment
UNBOUND == <<"<unbound>">>

\* process_subject's "Determine session for queries"
BidsSession(session_label) ==
    IF Truthy(session_label)
    THEN (IF StartsWith(session_label, SES) THEN Slice4(session_label) ELSE session_label)
    ELSE EMPTY

\* process_subject's fs_subject_id: the key of subject_t1_mapping, the
\* directory whose recon-all.done is looked for, the results["success"] entry
FsSubjectId(subject_id, session_label) ==
    IF Truthy(session_label) THEN subject_id \o USES \o session_label ELSE subject_id

\* the entry process_subject appends to results["skipped"] (no T1w image) and
\* to results["failure"]
SubjectEntry(subject_id, bids_session) ==
    subject_id \o (IF Truthy(bids_session) THEN USES \o bids_session ELSE EMPTY)

AppendTo(res, list, entry) == [res EXCEPT ![list] = Append(@, entry)]

\* process_subject's "except Exception" handler, entered with the local
\* bids_session as it is at the raise: reading it unbound raises
\* UnboundLocalError out of process_subject before anything is appended
ExceptHandler(res, subject_id, bids_session) ==
    IF bids_session = UNBOUND
    THEN [outcome |-> "raise", results |-> res]
    ELSE [outcome |-> "False",
          results |-> AppendTo(res, "failure", SubjectEntry(subject_id, bids_session))]

NoFrame ==
    [subject_id |-> EMPTY, session_label |-> EMPTY, bids_session |-> EMPTY,
     fs_subject_id |-> EMPTY, cmd |-> << >>]

\* a variant that records a subject without T1w image as a failure
NoT1wImages_Failure(res, mapping, subject_id, bids_session) ==
    [outcome |-> "False",
     results |-> AppendTo(res, "failure", SubjectEntry(subject_id, bids_session)),
     mapping |-> mapping, frame |-> NoFrame]

\* process_subject's "if not t1w_images": the subject is skipped
NoT1wImages(res, mapping, subject_id, bids_session) ==
    [outcome |-> "False",
     results |-> AppendTo(res, "skipped", SubjectEntry(subject_id, bids_session)),
     mapping |-> mapping, frame |-> NoFrame]

\* process_subject from its entry to the start of recon-all (outcome "run")
\* or to its return (outcome "True", "False") or raise.  layoutGiven: the
\* caller passed a layout; layoutOk: BIDSLayout(self.bids_dir) succeeds;
\* queryFails: the layout query that raises, if any; markers: the FreeSurfer
\* subject directories that hold scripts/recon-all.done
ProcessSubjectEnter(res, mapping, markers, layout, subject_id, layoutGiven, session_label, layoutOk, queryFails) ==
    LET stay(h) == [outcome |-> h.outcome, results |-> h.results,
                    mapping |-> mapping, frame |-> NoFrame]
    IN
    IF ~layoutGiven /\ ~layoutOk
    THEN stay(ExceptHandler(res, subject_id, UNBOUND))
    ELSE IF ~StartsWith(subject_id, SUB)
    THEN stay(ExceptHandler(res, subject_id, UNBOUND))
    ELSE
    LET bids_subject == Slice4(subject_id)
        bids_session == BidsSession(session_label)
        t1w_images == _find_images(layout, bids_subject, "T1w", bids_session)
        fs_subject_id == FsSubjectId(subject_id, session_label)
        t2w_images == _find_images(layout, bids_subject, "T2w", bids_session)
        mapping1 == Put(mapping, fs_subject_id,
                        [T1w_images |-> t1w_images, session |-> session_label,
                         T2w_images |-> << >>])
        mapping2 == IF Len(t2w_images) > 0
                    THEN [mapping1 EXCEPT ![fs_subject_id].T2w_images = t2w_images]
                    ELSE mapping1
        recon_session == IF Truthy(session_label) THEN bids_session ELSE EMPTY
    IN
    IF queryFails = "T1w"
    THEN stay(ExceptHandler(res, subject_id, bids_session))
    ELSE IF Len(t1w_images) = 0
    THEN NoT1wImages(res, mapping, subject_id, bids_session)
    ELSE IF queryFails = "T2w"
    THEN [stay(ExceptHandler(res, subject_id, bids_session)) EXCEPT !.mapping = mapping1]
    ELSE IF fs_subject_id \in markers
    THEN [outcome |-> "True",
          results |-> AppendTo(res, "skipped", fs_subject_id),
          mapping |-> mapping2, frame |-> NoFrame]
    ELSE [outcome |-> "run", results |-> res, mapping |-> mapping2,
          frame |-> [subject_id |-> subject_id, session_label |-> session_label,
                     bids_session |-> bids_session, fs_subject_id |-> fs_subject_id,
                     cmd |-> _create_recon_all_command(subject_id, t1w_images,
                                                       t2w_images, recon_session)]]

\* a variant that records the success before the outputs are organized
ProcessSubjectResume_AppendFirst(res, frame, returncode_zero, organizeOk) ==
    IF ~returncode_zero
    THEN ExceptHandler(res, frame.subject_id, frame.bids_session)
    ELSE IF ~organizeOk
    THEN ExceptHandler(AppendTo(res, "success", frame.fs_subject_id),
                       frame.subject_id, frame.bids_session)
    ELSE [outcome |-> "True",
          results |-> AppendTo(res, "success", frame.fs_subject_id)]

\* process_subject from the return of recon-all: subprocess.run(check=True)
\* raises on a non-zero exit status, _organize_bids_output may raise
ProcessSubjectResume(res, frame, returncode_zero, organizeOk) ==
    IF ~returncode_zero \/ ~organizeOk
    THEN ExceptHandler(res, frame.subject_id, frame.bids_session)
    ELSE [outcome |-> "True",
          results |-> AppendTo(res, "success", frame.fs_subject_id)]

\* get_subject_t1_info
get_subject_t1_info(mapping, subject_id, session_label) ==
    LET fs_subject_id == IF Truthy(session_label)
                         THEN subject_id \o USES \o session_label
                         ELSE subject_id
    IN IF fs_subject_id \in DOMAIN mapping
       THEN mapping[fs_subject_id]
       ELSE [T1w_images |-> << >>, session |-> EMPTY, T2w_images |-> << >>]

\* get_processing_summary
get_processing_summary(res) ==
    [total |-> Len(res.success) + Len(res.failure) + Len(res.skipped),
     success |-> Len(res.success), failure |-> Len(res.failure),
     skipped |-> Len(res.skipped),
     success_list |-> res.success, failure_list |-> res.failure,
     skipped_list |-> res.skipped]


(***************************************************************************)
(* State.                                                                  *)
(***************************************************************************)
VARIABLES
    mode,                \* "cli": command-line runs; "api": direct calls of the wrapper
    pc,                  \* where the run (or the call) stands
    calls,               \* direct calls of process_subject made
    \* the file system and the dataset, which outlive a run
    dataset,             \* the images the BIDS layout indexes
    done,                \* FreeSurfer subject IDs D with <freesurfer_dir>/D/scripts/recon-all.done
    inDir,               \* <bids_dir>/../NIDM: "absent", "separate", or "same" (it resolves to nidm_dir)
    inFiles,             \* the files of a separate NIDM input directory: name -> content
    outFiles,            \* the files of nidm_dir: name -> content
    nidmDirExists,       \* nidm_dir exists
    summaryFile,         \* << >>, or <<the summary this run wrote to processing_summary.json>>
    \* the run
    args,                \* the command line
    participant_label,   \* process_participant's / process_session's local, prefix stripped
    session_label,       \* process_session's local, prefix stripped ("" at participant level)
    nidm_input_dir,      \* initialize's nidm_input_dir is not None
    exitCode,            \* "none" while the run lasts, then "0" or "1"
    exitReason,          \* why the run ended: the error run.py logged, or "complete"
    \* the wrapper
    results,             \* FreeSurferWrapper.results
    subject_t1_mapping,  \* FreeSurferWrapper.subject_t1_mapping
    ps,                  \* the locals of the process_subject call in progress
    psArgs,              \* the arguments of the last process_subject call
    psResult,            \* "none", "run", or how the last call ended: "True", "False", "raise"
    markerAtCall,        \* the markers on disk when the last call was made
    reconLog,            \* the recon-all commands this wrapper has started
    reconExits,          \* the exit statuses of those that have ended: "0" or "1"
    \* nidm_conversion
    nc,                  \* its locals
    convLog,             \* the converter commands this run has started
    inSnapshot,          \* the files of the NIDM input directory when the run started
    convFiles,           \* the files of nidm_dir when the converter returned
    aggSources,          \* aggregation_sources
    aggregated,          \* << >>, or <<the triples of the aggregated graph written>>
    \* directories and the process environment
    SUBJECTS_DIR,        \* os.environ["SUBJECTS_DIR"]: a path, or << >> when unset
    madeDirs,            \* the directories ensured with os.makedirs / Path.mkdir
    \* the construction of a FreeSurferWrapper
    FREESURFER_HOME,     \* the variable is in os.environ
    freesurfer_license,  \* the license argument: "none", or a path that "exists" or is "missing"
    licenseFiles,        \* the standard license locations that exist
    FS_LICENSE,          \* os.environ["FS_LICENSE"], "unset" when it is not there
    lookups,             \* the paths os.path.exists was asked about, in order
    constructed,         \* "none", "ok", or the exception __init__ raised
    \* _organize_bids_output
    fsTree,              \* the files below freesurfer_dir
    outTree,             \* the files below the wrapper's output_dir: path -> content
    versionFile,         \* << >>, or <<the VERSION file next to the package: key -> version>>
    organized,           \* the arguments of the _organize_bids_output calls made
    \* _create_recon_all_command on its own
    cmdArgs,             \* the arguments of the call
    cmdBuilt,            \* << >>, or <<the command it returned>>
    \* several wrappers in one process
    wrappers,            \* the output_dir of each FreeSurferWrapper constructed, in order
    reconEnvs,           \* for each recon-all started: its wrapper, its command, its SUBJECTS_DIR
    doneIn,              \* directory -> the FreeSurfer subject IDs with recon-all.done in it
    \* successive runs on one file system
    earlier              \* what each earlier run left, in order

fsVars == <<dataset, done, inDir, inFiles, outFiles, nidmDirExists, summaryFile>>
runVars == <<args, participant_label, session_label, nidm_input_dir, exitCode, exitReason>>
wrapperVars == <<results, subject_t1_mapping, ps, psArgs, psResult, markerAtCall, reconLog,
                 reconExits>>
nidmVars == <<nc, convLog, inSnapshot, convFiles, aggSources, aggregated>>
dirVars == <<SUBJECTS_DIR, madeDirs>>
envVars == <<FREESURFER_HOME, freesurfer_license, licenseFiles, FS_LICENSE, lookups, constructed>>
orgVars == <<fsTree, outTree, versionFile, organized>>
cmdVars == <<cmdArgs, cmdBuilt>>
multiVars == <<wrappers, reconEnvs, doneIn>>
unitVars == <<envVars, orgVars, cmdVars, multiVars, earlier>>
vars == <<mode, pc, calls, fsVars, runVars, wrapperVars, nidmVars, dirVars, unitVars>>

NoCommand == [subject_id |-> EMPTY, t1w_images |-> << >>, t2w_images |-> << >>,
              session_label |-> EMPTY]

\* no command is being built on its own, no further wrapper exists
IdleCommand == cmdArgs = NoCommand /\ cmdBuilt = << >>
IdleWrappers == wrappers = << >> /\ reconEnvs = << >> /\ doneIn = EmptyMap

\* no run came before
FirstRun == earlier = << >>

(***************************************************************************)
(* RDF files: the triples a file holds and the format it is written in     *)
(* ("turtle", "json-ld", or "other" for what no RDF parser reads).         *)
(***************************************************************************)
File(triples, format) == [triples |-> triples, format |-> format]

NIDM_TTL == <<"n", "i", "d", "m">> \o EXT_TTL
IN_TTL == <<"k">> \o EXT_TTL
IN_JSONLD == <<"k">> \o EXT_JSONLD
IN_JSON_LD == <<"k">> \o EXT_JSON_LD
IN_TXT == <<"k", ".", "t", "x", "t">>

\* what <bids_dir>/../NIDM may hold before the first run
InputDirs ==
    { [n \in {IN_TXT} |-> File({"t0"}, "turtle")],
      [n \in {NIDM_TTL, IN_TTL} |-> File({"t0"}, "turtle")],
      [n \in {IN_TTL, IN_JSONLD} |-> File({"t0"}, IF n = IN_TTL THEN "other" ELSE "json-ld")],
      [n \in {IN_JSON_LD, IN_TXT} |-> File({"t0"}, "json-ld")],
      [n \in {IN_JSONLD, IN_JSON_LD} |-> File({"t4"}, "json-ld")] }

NoArgs == [level |-> "participant", participant_label |-> EMPTY,
           session_label |-> EMPTY, skip_nidm |-> FALSE, option |-> ""]

NoCall == [subject_id |-> EMPTY, session_label |-> EMPTY, layoutGiven |-> TRUE]

NoNidm == [fs_subject_id |-> EMPTY, t1_images |-> << >>, t2_images |-> << >>,
           existing_nidm_file |-> EMPTY, copied_nidm |-> EMPTY,
           cmd |-> << >>, existing_outputs |-> {}]

NoResults == [success |-> << >>, failure |-> << >>, skipped |-> << >>]

(***************************************************************************)
(* process_subject, called from a run or directly.                         *)
(***************************************************************************)
\* the FreeSurfer subject directory a recon-all command works in
SubjIdOf(cmd) == cmd[3].name

CallProcessSubject(subject_id, layoutGiven, session, layoutOk, queryFails) ==
    LET r == ProcessSubjectEnter(results, subject_t1_mapping, done, dataset,
                                 subject_id, layoutGiven, session, layoutOk, queryFails)
    IN /\ results' = r.results
       /\ subject_t1_mapping' = r.mapping
       /\ ps' = r.frame
       /\ psArgs' = [subject_id |-> subject_id, session_label |-> session,
                     layoutGiven |-> layoutGiven]
       /\ psResult' = r.outcome
       /\ markerAtCall' = done
       /\ reconLog' = IF r.outcome = "run" THEN Append(reconLog, r.frame.cmd) ELSE reconLog
       /\ UNCHANGED reconExits
       /\ pc' = IF r.outcome = "run" THEN "recon" ELSE "returned"

\* recon-all ends: with exit status zero it has left scripts/recon-all.done
\* in the directory of its -subjid below SUBJECTS_DIR
ReconAllReturns(returncode_zero, organizeOk) ==
    /\ pc = "recon"
    /\ LET r == ProcessSubjectResume(results, ps, returncode_zero, organizeOk)
       IN /\ results' = r.results
          /\ psResult' = r.outcome
    /\ done' = IF returncode_zero THEN done \cup {SubjIdOf(ps.cmd)} ELSE done
    /\ reconExits' = Append(reconExits, IF returncode_zero THEN "0" ELSE "1")
    /\ UNCHANGED <<dirVars, unitVars>>
    /\ ps' = NoFrame
    /\ pc' = "returned"
    /\ UNCHANGED <<mode, calls, dataset, inDir, inFiles, outFiles, nidmDirExists,
                   summaryFile, runVars, subject_t1_mapping, psArgs, markerAtCall,
                   reconLog, nidmVars>>

ApiSubjects == {SUB \o L1, SUB \o L2, L1}
ApiSessions == {EMPTY, SA, SES \o SA, SB}
QueryFailures == {"none", "T1w", "T2w"}

\* a direct call wrapper.process_subject(subject_id, layout, session_label)
ApiCall(subject_id, layoutGiven, session, layoutOk, queryFails) ==
    /\ mode = "api"
    /\ pc \in {"ready", "returned"}
    /\ calls < MaxCalls
    /\ calls' = calls + 1
    /\ CallProcessSubject(subject_id, layoutGiven, session, layoutOk, queryFails)
    /\ UNCHANGED <<mode, fsVars, runVars, nidmVars, dirVars, unitVars>>

(***************************************************************************)
(* The command-line run.                                                   *)
(***************************************************************************)
\* a variant that takes the session label as typed
StripSession_AsTyped(label) == label

\* process_participant / process_session: strip "sub-" if present
StripParticipant(label) == IF StartsWith(label, SUB) THEN Slice4(label) ELSE label

\* process_session: strip "ses-" if present
StripSession(label) == IF StartsWith(label, SES) THEN Slice4(label) ELSE label

\* initialize: the directories of a run, as paths
OUTPUT_DIR == <<"output_dir">>
AppOutputDir == OUTPUT_DIR \o <<"freesurfer_bidsapp">>
FreesurferDir == AppOutputDir \o <<"freesurfer">>
NidmDir == AppOutputDir \o <<"nidm">>

\* cli: the labels the analysis level requires are given
LabelsGiven(a) ==
    IF a.level = "participant"
    THEN Truthy(a.participant_label)
    ELSE Truthy(a.participant_label) /\ Truthy(a.session_label)

\* "Validate that the subject exists"
SubjectValid(layout, plabel) == plabel \in GetSubjects(layout)

\* a variant that accepts a session of any subject of the dataset
SessionValid_AnySubject(layout, plabel, slabel) == slabel \in {i.ses : i \in layout}

\* "Validate that the session exists"
SessionValid(layout, plabel, slabel) == slabel \in GetSessions(layout, plabel)

\* a variant that converts whatever process_subject returned
ShouldConvert_AnyResult(success, skip_nidm) == ~skip_nidm

\* "if success and not skip_nidm"
ShouldConvert(success, skip_nidm) == success /\ ~skip_nidm

\* the files of the NIDM input directory
InputFiles == IF inDir = "same" THEN outFiles ELSE inFiles

ParticipantArgs == {EMPTY, L1, SUB \o L1, L2, L3, LDOT, SUB \o SUB \o L1}
SessionArgs == {EMPTY, SA, SES \o SA, SB, SES \o SES \o SA}
InitOutcomes == {"ok", "layout", "wrapper"}

\* the options cli declares
CliOptions ==
    {"--participant_label", "--participant-label", "--session_label", "--session-label",
     "--freesurfer_license", "--fs-license-file", "--skip-bids-validation",
     "--skip_nidm", "--skip-nidm", "--verbose", "--version", "--help"}

\* a further option typed on the command line: none, or --nidm-input-dir <dir>
FurtherOptions == {"", "--nidm-input-dir"}

\* click's parsing of the command line: an option cli does not declare is a
\* usage error, which ends the program with status 2 before cli is entered
UsageError(option) == option # "" /\ option \notin CliOptions

\* get_freesurfer_version: from the VERSION file, "unknown" without it
get_freesurfer_version(vf) ==
    IF vf # << >> /\ "freesurfer" \in DOMAIN vf[1] THEN vf[1]["freesurfer"] ELSE "unknown"

\* get_version_info, the versions it reports by key.  vf: the VERSION file;
\* installed: the version of the installed distribution freesurfer-bidsapp,
\* "unknown" when there is none (setup.py has no line '    version="...')
get_version_info(vf, installed) ==
    LET fs == get_freesurfer_version(vf)
    IN IF vf # << >>
       THEN [k \in {"freesurfer_bidsapp", "freesurfer"} |->
               IF k = "freesurfer" THEN fs
               ELSE IF "freesurfer_bidsapp" \in DOMAIN vf[1]
               THEN vf[1]["freesurfer_bidsapp"] ELSE "unknown"]
       ELSE [k \in {"freesurfer_bidsapp", "freesurfer"} |->
               IF k = "freesurfer" THEN fs ELSE installed]

\* the version of the installed distribution that importlib.metadata reports
InstalledVersions == {"unknown", "0.1.0"}

\* a variant that saves the summary as get_processing_summary returned it
WithVersionInfo_Dropped(summary, version_info) == summary

\* summary["version_info"] = version_info
WithVersionInfo(summary, version_info) ==
    [k \in DOMAIN summary \cup {"version_info"} |->
       IF k = "version_info" THEN version_info ELSE summary[k]]

\* a variant that hands the session label on at either analysis level
RunSession_AsGiven(level, slabel) == StripSession(slabel)

\* the session of the run: cli passes session_label to process_session
\* only; process_participant has no session
RunSession(level, slabel) == IF level = "session" THEN StripSession(slabel) ELSE EMPTY

\* cli, initialize and process_participant / process_session up to the call
\* of process_subject.  initOutcome: whether BIDSLayout and FreeSurferWrapper
\* could be constructed
CliStart(level, plabel, slabel, skip_nidm, option, initOutcome) ==
    LET a == [level |-> level, participant_label |-> plabel,
              session_label |-> slabel, skip_nidm |-> skip_nidm, option |-> option]
        p == StripParticipant(plabel)
        s == RunSession(level, slabel)
        reason == IF UsageError(option) THEN "usage"
                  ELSE IF ~LabelsGiven(a) THEN "labels"
                  ELSE IF initOutcome # "ok" THEN initOutcome
                  ELSE IF ~SubjectValid(dataset, p) THEN "subject"
                  ELSE IF level = "session" /\ ~SessionValid(dataset, p, s) THEN "session"
                  ELSE "none"
        proceed == reason = "none"
    IN /\ mode = "cli"
       /\ pc = "ready"
       /\ args' = a
       /\ participant_label' = IF proceed THEN p ELSE EMPTY
       /\ session_label' = IF proceed THEN s ELSE EMPTY
       /\ nidm_input_dir' = (proceed /\ inDir # "absent")
       /\ exitCode' = IF proceed THEN "none" ELSE IF reason = "usage" THEN "2" ELSE "1"
       /\ pc' = IF proceed THEN "call" ELSE "exit"
       /\ exitReason' = reason
       /\ summaryFile' = << >>
       /\ results' = NoResults
       /\ subject_t1_mapping' = EmptyMap
       /\ ps' = NoFrame
       /\ psArgs' = NoCall
       /\ psResult' = "none"
       /\ markerAtCall' = {}
       /\ reconLog' = << >>
       /\ reconExits' = << >>
       /\ SUBJECTS_DIR' = IF reason \in {"usage", "labels"} THEN SUBJECTS_DIR ELSE FreesurferDir
       /\ madeDirs' = IF reason = "usage" THEN madeDirs
                      ELSE IF reason = "labels" THEN madeDirs \cup {OUTPUT_DIR}
                      ELSE madeDirs \cup {OUTPUT_DIR, FreesurferDir}
       /\ UNCHANGED unitVars
       /\ nc' = NoNidm
       /\ convLog' = << >>
       /\ inSnapshot' = InputFiles
       /\ convFiles' = EmptyMap
       /\ aggSources' = << >>
       /\ aggregated' = << >>
       /\ UNCHANGED <<mode, calls, dataset, done, inDir, inFiles, outFiles, nidmDirExists>>

\* freesurfer_wrapper.process_subject(fs_subject_id, layout[, session_label=])
CliProcessSubject(queryFails) ==
    /\ mode = "cli"
    /\ pc = "call"
    /\ CallProcessSubject(SUB \o participant_label, TRUE, session_label, TRUE, queryFails)
    /\ UNCHANGED <<mode, calls, fsVars, runVars, nidmVars, dirVars, unitVars>>

\* process_participant / process_session from the return of process_subject
\* to the call of nidm_conversion or the end of the run.  summaryOk: writing
\* processing_summary.json succeeds; installed: the installed version that
\* initialize's get_version_info found
AfterProcessSubject(summaryOk, installed) ==
    /\ mode = "cli"
    /\ pc = "returned"
    /\ IF psResult = "raise"
       THEN /\ exitCode' = "1"
            /\ pc' = "exit"
            /\ exitReason' = "processing"
            /\ UNCHANGED summaryFile
       ELSE IF ~summaryOk
       THEN /\ exitCode' = "1"
            /\ pc' = "exit"
            /\ exitReason' = "summary"
            /\ UNCHANGED summaryFile
       ELSE /\ summaryFile' = <<WithVersionInfo(get_processing_summary(results),
                                                get_version_info(versionFile, installed))>>
            /\ IF ShouldConvert(psResult = "True", args.skip_nidm)
               THEN pc' = "nidm" /\ exitCode' = "none" /\ exitReason' = "none"
               ELSE pc' = "exit" /\ exitCode' = "0" /\ exitReason' = "complete"
    /\ UNCHANGED <<mode, calls, dataset, done, inDir, inFiles, outFiles,
                   nidmDirExists, args, participant_label, session_label,
                   nidm_input_dir, wrapperVars, nidmVars, dirVars, unitVars>>


(***************************************************************************)
(* nidm_conversion.                                                        *)
(***************************************************************************)
\* a variant that names a session's outputs by a path below the subject
NidmSubjectId_Nested(plabel, bids_session) ==
    IF bids_session = EMPTY
    THEN SUB \o plabel
    ELSE SUB \o plabel \o <<"/">> \o SES \o bids_session

\* "Determine subject directory with session info": bids_session is None at
\* participant level and a non-empty label at session level
NidmSubjectId(plabel, bids_session) ==
    IF bids_session = EMPTY
    THEN SUB \o plabel
    ELSE SUB \o plabel \o USES \o bids_session

\* Path.glob("*<ext>") on a directory
Glob(files, ext) == {n \in DOMAIN files : EndsWith(n, ext)}

\* a variant that looks for *.jsonld before *.ttl
ExistingCandidates_JsonFirst(inputDirGiven, inputDirExists, files) ==
    IF ~(inputDirGiven /\ inputDirExists) THEN {EMPTY}
    ELSE IF NIDM_TTL \in DOMAIN files THEN {NIDM_TTL}
    ELSE IF {n \in DOMAIN files : EndsWith(n, EXT_JSONLD)} # {}
    THEN {n \in DOMAIN files : EndsWith(n, EXT_JSONLD)}
    ELSE IF {n \in DOMAIN files : EndsWith(n, EXT_TTL)} # {}
    THEN {n \in DOMAIN files : EndsWith(n, EXT_TTL)}
    ELSE {n \in DOMAIN files : EndsWith(n, EXT_JSON_LD)} \cup {EMPTY}

\* the values existing_nidm_file may take ("" for None): nidm.ttl if it is
\* there, else the first name the first matching pattern yields, in the
\* order the directory lists its entries
ExistingCandidates(inputDirGiven, inputDirExists, files) ==
    IF ~(inputDirGiven /\ inputDirExists) THEN {EMPTY}
    ELSE IF NIDM_TTL \in DOMAIN files THEN {NIDM_TTL}
    ELSE IF Glob(files, EXT_TTL) # {} THEN Glob(files, EXT_TTL)
    ELSE IF Glob(files, EXT_JSONLD) # {} THEN Glob(files, EXT_JSONLD)
    ELSE IF Glob(files, EXT_JSON_LD) # {} THEN Glob(files, EXT_JSON_LD)
    ELSE {EMPTY}

\* a variant that always gives -o and adds -n for an existing NIDM file
BuildCommand_Both(fs_subject_id, copied_nidm) ==
    <<Lit("sys.executable"), Lit("-m"), Lit("segstats_jsonld.fs_to_nidm"),
      Lit("-s"), PathTok("freesurfer_dir", fs_subject_id),
      Lit("-o"), PathTok("nidm_dir", EMPTY), Lit("-j")>>
        \o (IF Truthy(copied_nidm)
            THEN <<Lit("-n"), PathTok("nidm_dir", copied_nidm), Lit("--forcenidm")>>
            ELSE << >>)

\* a variant that gives the converter the file of the NIDM input directory
BuildCommand_InPlace(fs_subject_id, copied_nidm) ==
    IF Truthy(copied_nidm)
    THEN <<Lit("sys.executable"), Lit("-m"), Lit("segstats_jsonld.fs_to_nidm"),
           Lit("-s"), PathTok("freesurfer_dir", fs_subject_id),
           Lit("-n"), PathTok("nidm_input_dir", copied_nidm), Lit("-j"),
           Lit("--forcenidm")>>
    ELSE <<Lit("sys.executable"), Lit("-m"), Lit("segstats_jsonld.fs_to_nidm"),
           Lit("-s"), PathTok("freesurfer_dir", fs_subject_id),
           Lit("-o"), PathTok("nidm_dir", EMPTY), Lit("-j")>>

\* a variant that always adds to <nidm_dir>/nidm.ttl
BuildCommand_AlwaysAdd(fs_subject_id, copied_nidm) ==
    <<Lit("sys.executable"), Lit("-m"), Lit("segstats_jsonld.fs_to_nidm"),
      Lit("-s"), PathTok("freesurfer_dir", fs_subject_id),
      Lit("-n"), PathTok("nidm_dir", IF Truthy(copied_nidm) THEN copied_nidm ELSE NIDM_TTL),
      Lit("-j"), Lit("--forcenidm")>>

\* "Build command: use -n for existing NIDM file, -o for new output"
BuildCommand(fs_subject_id, copied_nidm) ==
    IF Truthy(copied_nidm)
    THEN <<Lit("sys.executable"), Lit("-m"), Lit("segstats_jsonld.fs_to_nidm"),
           Lit("-s"), PathTok("freesurfer_dir", fs_subject_id),
           Lit("-n"), PathTok("nidm_dir", copied_nidm), Lit("-j"), Lit("--forcenidm")>>
    ELSE <<Lit("sys.executable"), Lit("-m"), Lit("segstats_jsonld.fs_to_nidm"),
           Lit("-s"), PathTok("freesurfer_dir", fs_subject_id),
           Lit("-o"), PathTok("nidm_dir", EMPTY), Lit("-j")>>

\* a variant that keeps a copy that is already in nidm_dir
CopyExisting_IfAbsent(nidmFiles, inputFiles, existing_nidm_file, samePath) ==
    IF Truthy(existing_nidm_file) /\ ~samePath /\ existing_nidm_file \notin DOMAIN nidmFiles
    THEN Put(nidmFiles, existing_nidm_file, inputFiles[existing_nidm_file])
    ELSE nidmFiles

\* nidm_conversion's copy of the existing NIDM file into nidm_dir, skipped
\* when both paths resolve to the same file
CopyExisting(nidmFiles, inputFiles, existing_nidm_file, samePath) ==
    IF Truthy(existing_nidm_file) /\ ~samePath
    THEN Put(nidmFiles, existing_nidm_file, inputFiles[existing_nidm_file])
    ELSE nidmFiles

\* nidm_conversion from its entry to the start of the converter.  mkdirOk:
\* os.makedirs(nidm_dir) succeeds; copyOk: shutil.copy2 succeeds
NidmBegin(mkdirOk, copyOk, existing) ==
    /\ mode = "cli"
    /\ pc = "nidm"
    /\ existing \in ExistingCandidates(nidm_input_dir, inDir # "absent", InputFiles)
    /\ LET fs_subject_id == NidmSubjectId(participant_label, session_label)
           t1_info == get_subject_t1_info(subject_t1_mapping, fs_subject_id, session_label)
           samePath == inDir = "same"
           files1 == CopyExisting(outFiles, InputFiles, existing, samePath)
           cmd == BuildCommand(fs_subject_id, existing)
           locals == [fs_subject_id |-> fs_subject_id,
                      t1_images |-> t1_info.T1w_images,
                      t2_images |-> t1_info.T2w_images,
                      existing_nidm_file |-> existing, copied_nidm |-> existing,
                      cmd |-> << >>, existing_outputs |-> {}]
       IN IF ~mkdirOk
          THEN /\ exitCode' = "1"
               /\ pc' = "exit"
               /\ exitReason' = "mkdir"
               /\ UNCHANGED <<nc, convLog, outFiles, nidmDirExists, madeDirs>>
          ELSE IF Truthy(existing) /\ ~samePath /\ ~copyOk
          THEN /\ exitCode' = "1"
               /\ pc' = "exit"
               /\ exitReason' = "copy"
               /\ nidmDirExists' = TRUE
               /\ madeDirs' = madeDirs \cup {NidmDir}
               /\ nc' = locals
               /\ UNCHANGED <<convLog, outFiles>>
          ELSE /\ exitCode' = "none"
               /\ pc' = "converter"
               /\ nidmDirExists' = TRUE
               /\ madeDirs' = madeDirs \cup {NidmDir}
               /\ outFiles' = files1
               /\ nc' = [locals EXCEPT !.cmd = cmd, !.existing_outputs = DOMAIN files1]
               /\ convLog' = Append(convLog, cmd)
               /\ UNCHANGED exitReason
    /\ UNCHANGED <<mode, calls, dataset, done, inDir, inFiles, summaryFile, args,
                   participant_label, session_label, nidm_input_dir, wrapperVars,
                   inSnapshot, convFiles, aggSources, aggregated, SUBJECTS_DIR, unitVars>>

\* _guess_rdf_format
_guess_rdf_format(name) ==
    LET suffix == Lower(Suffix(name))
    IN IF suffix \in {EXT_TTL, EXT_TURTLE, EXT_N3} THEN "turtle"
       ELSE IF suffix \in {EXT_JSON, EXT_JSONLD, EXT_JSON_LD} THEN "json-ld"
       ELSE "xml"

\* a variant that aggregates the Turtle and .jsonld outputs only
IsAggregationCandidate_NoJson(name) ==
    Lower(Suffix(name)) \in {EXT_TTL, EXT_JSONLD}

\* the test of "for candidate in new_outputs"
IsAggregationCandidate(name) ==
    Lower(Suffix(name)) \in {EXT_TTL, EXT_JSON, EXT_JSONLD, EXT_JSON_LD}

\* a set of names as a list, in the order the directory lists them
RECURSIVE ListOf(_)
ListOf(S) ==
    IF S = {} THEN << >>
    ELSE LET n == CHOOSE x \in S : TRUE IN <<n>> \o ListOf(S \ {n})

Source(dir, name) == [dir |-> dir, name |-> name]

SourceFile(src, nidmFiles, inputFiles) ==
    IF src.dir = "nidm_dir" THEN nidmFiles[src.name] ELSE inputFiles[src.name]

\* aggregated_graph.parse(str(src), format=_guess_rdf_format(src)) inside
\* try/except: a file that is not in the guessed format raises and adds nothing
ParseInto(graph, src, nidmFiles, inputFiles) ==
    LET f == SourceFile(src, nidmFiles, inputFiles)
    IN IF f.format = _guess_rdf_format(src.name) THEN graph \cup f.triples ELSE graph

RECURSIVE ParseAll(_, _, _, _)
ParseAll(graph, sources, nidmFiles, inputFiles) ==
    IF sources = << >> THEN graph
    ELSE ParseAll(ParseInto(graph, Head(sources), nidmFiles, inputFiles),
                  Tail(sources), nidmFiles, inputFiles)

\* a variant that takes every file of nidm_dir for a new output
new_outputs_Everything(n, nidmFiles) == DOMAIN nidmFiles

\* new_outputs: the files of nidm_dir whose name was not there before the
\* converter ran
new_outputs(n, nidmFiles) == DOMAIN nidmFiles \ n.existing_outputs

\* aggregation_sources
AggregationSources(n, nidmFiles, inputFiles) ==
    LET new_list == ListOf(new_outputs(n, nidmFiles))
        first == IF Truthy(n.copied_nidm) /\ n.copied_nidm \in DOMAIN nidmFiles
                 THEN <<Source("nidm_dir", n.copied_nidm)>>
                 ELSE IF Truthy(n.existing_nidm_file)
                         /\ n.existing_nidm_file \in DOMAIN inputFiles
                 THEN <<Source("nidm_input_dir", n.existing_nidm_file)>>
                 ELSE << >>
        rest == SelectSeq(new_list, IsAggregationCandidate)
    IN first \o [i \in 1..Len(rest) |-> Source("nidm_dir", rest[i])]

\* nidm_conversion after a converter run with exit status zero: what is
\* aggregated and the files of nidm_dir it leaves
Aggregate(n, nidmFiles, inputFiles) ==
    LET sources == AggregationSources(n, nidmFiles, inputFiles)
        graph == ParseAll({}, sources, nidmFiles, inputFiles)
        target_ttl == WithSuffix(n.fs_subject_id, EXT_TTL)
        target_jsonld == WithSuffix(n.fs_subject_id, EXT_JSONLD)
    IN IF new_outputs(n, nidmFiles) = {} /\ ~Truthy(n.copied_nidm)
       THEN [sources |-> << >>, written |-> << >>, files |-> nidmFiles]
       ELSE IF sources = << >> \/ graph = {}
       THEN [sources |-> sources, written |-> << >>, files |-> nidmFiles]
       ELSE [sources |-> sources, written |-> <<graph>>,
             files |-> Put(Put(nidmFiles, target_ttl, File(graph, "turtle")),
                           target_jsonld, File(graph, "json-ld"))]


(***************************************************************************)
(* The converter, python -m segstats_jsonld.fs_to_nidm: an external        *)
(* program.  It may add triples to the file its -n names (or replace the   *)
(* file under another name), and it may write files into the directory of  *)
(* its -n file or its -o directory, whatever its exit status.              *)
(***************************************************************************)
NoTok == Lit("")

\* the argument that follows a flag on a command line
ArgAfter(cmd, flag) ==
    IF \E i \in 1..(Len(cmd) - 1) : cmd[i] = Lit(flag)
    THEN cmd[(CHOOSE i \in 1..(Len(cmd) - 1) : cmd[i] = Lit(flag)) + 1]
    ELSE NoTok

OUT_TTL == <<"o">> \o EXT_TTL
OUT_JSONLD == <<"o">> \o EXT_JSONLD
OUT_JSON == <<"o">> \o EXT_JSON
OUT_UPPER == <<"o", ".", "T", "T", "L">>
OUT_TXT == <<"o", ".", "t", "x", "t">>

\* the files one converter run may write
ConverterWrites ==
    { EmptyMap,
      [n \in {OUT_TTL} |-> File({"t1"}, "turtle")],
      [n \in {OUT_TTL, OUT_JSONLD} |-> File({"t2"}, IF n = OUT_TTL THEN "turtle" ELSE "other")],
      [n \in {OUT_UPPER, OUT_TXT} |-> File(IF n = OUT_UPPER THEN {"t2"} ELSE {"t3"}, "turtle")],
      [n \in {OUT_JSON} |-> File({"t3"}, "json-ld")] }

\* what it may do to its -n file
ConverterEffects == {"keep", "append", "remove"}

\* what nidm_dir may hold before the first run when it is not the input
\* directory: nothing, or an output of an earlier conversion
PriorOutputs == {EmptyMap, [n \in {OUT_TTL} |-> File({"t3"}, "turtle")]}

Overwrite(files, writes) ==
    [n \in (DOMAIN files) \cup (DOMAIN writes) |->
        IF n \in DOMAIN writes THEN writes[n] ELSE files[n]]

Remove(files, name) == [n \in (DOMAIN files) \ {name} |-> files[n]]

\* the triple that stands for the data of a FreeSurfer subject directory
DataOf(fs_subject_id) == IF fs_subject_id = SUB \o L2 THEN "t5" ELSE "t1"

\* the converter run of a command: it may add the data of its -s subject to
\* its -n file or remove that file, and it writes files
ConverterRun(files, cmd, writes, effect) ==
    LET target == ArgAfter(cmd, "-n").name
        touched == IF Truthy(target) /\ target \in DOMAIN files
                   THEN CASE effect = "append" ->
                               [files EXCEPT ![target].triples =
                                   @ \cup {DataOf(ArgAfter(cmd, "-s").name)}]
                          [] effect = "remove" -> Remove(files, target)
                          [] OTHER -> files
                   ELSE files
    IN Overwrite(touched, writes)

\* the converter returns and nidm_conversion runs to its end
ConverterReturns(returncode_zero, writes, effect) ==
    /\ mode = "cli"
    /\ pc = "converter"
    /\ LET where == IF ArgAfter(nc.cmd, "-n") # NoTok
                    THEN ArgAfter(nc.cmd, "-n").text
                    ELSE ArgAfter(nc.cmd, "-o").text
           inNidmDir == where = "nidm_dir" \/ inDir = "same"
           out1 == IF inNidmDir THEN ConverterRun(outFiles, nc.cmd, writes, effect)
                   ELSE outFiles
           in1 == IF inNidmDir THEN inFiles
                  ELSE ConverterRun(inFiles, nc.cmd, writes, effect)
           agg == Aggregate(nc, out1, IF inDir = "same" THEN out1 ELSE in1)
       IN /\ inFiles' = in1
          /\ convFiles' = out1
          /\ IF returncode_zero
             THEN /\ outFiles' = agg.files
                  /\ aggSources' = agg.sources
                  /\ aggregated' = agg.written
                  /\ exitCode' = "0"
                  /\ exitReason' = "complete"
             ELSE /\ outFiles' = out1
                  /\ aggSources' = << >>
                  /\ aggregated' = << >>
                  /\ exitCode' = "1"
                  /\ exitReason' = "converter"
    /\ pc' = "exit"
    /\ UNCHANGED <<mode, calls, dataset, done, inDir, nidmDirExists, summaryFile,
                   args, participant_label, session_label, nidm_input_dir,
                   wrapperVars, nc, convLog, inSnapshot, dirVars, unitVars>>

(***************************************************************************)
(* _organize_bids_output and the files it writes.  A file name             *)
(* is a sequence of pieces of text; a path below freesurfer_dir is         *)
(* <subject directory>/<mri, stats, scripts>/<name>, a path below the      *)
(* wrapper's output_dir is [<subject>/[<session>/]<anat, stats>/]<name>.   *)
(***************************************************************************)
\* dict.get(key, {}).get("version", default)
VersionOf(version_info, key, default) ==
    IF key \in DOMAIN version_info THEN version_info[key] ELSE default

FsPath(dir, sub, name) == [dir |-> dir, sub |-> sub, name |-> name]
OutPath(subject, session, sub, name) ==
    [subject |-> subject, session |-> session, sub |-> sub, name |-> name]

\* what a file below output_dir holds: a copy of a FreeSurfer file, or text
CopyOf(src) == [kind |-> "copy", src |-> <<src>>, text |-> << >>]
TextOf(text) == [kind |-> "text", src |-> << >>, text |-> <<text>>]

BRAIN_MGZ == <<"brain.mgz">>
APARC_MGZ == <<"aparc.DKTatlas+aseg.mgz">>
WMPARC_MGZ == <<"wmparc.mgz">>
EXT_STATS == <<".", "s", "t", "a", "t", "s">>
DATASET_DESCRIPTION == OutPath(EMPTY, EMPTY, "", <<"dataset_description.json">>)
README == OutPath(EMPTY, EMPTY, "", <<"README">>)

DirEntry == [kind |-> "dir", src |-> << >>, text |-> << >>]

\* mri_files
mri_files(subject_id, session_part) ==
    [src \in {BRAIN_MGZ, APARC_MGZ, WMPARC_MGZ} |->
        subject_id \o session_part \o
          (CASE src = BRAIN_MGZ -> <<"_desc-brain_T1w.nii.gz">>
             [] src = APARC_MGZ -> <<"_desc-aparcaseg_dseg.nii.gz">>
             [] src = WMPARC_MGZ -> <<"_desc-wmparc_dseg.nii.gz">>)]

\* a variant that copies without looking whether the source exists
_copy_file_Unchecked(fs, out, src, dest) == Put(out, dest, CopyOf(src))

\* _copy_file
_copy_file(fs, out, src, dest) ==
    IF src \in fs THEN Put(out, dest, CopyOf(src)) ELSE out

\* _copy_file over a set of (src, dest) pairs, no two with the same dest
RECURSIVE CopyAll(_, _, _)
CopyAll(fs, out, pairs) ==
    IF pairs = {} THEN out
    ELSE LET pr == CHOOSE x \in pairs : TRUE
         IN CopyAll(fs, _copy_file(fs, out, pr.src, pr.dest), pairs \ {pr})

\* a variant that writes the description whether or not the file exists
_create_dataset_description_Always(out, version_info, fs_version) ==
    Put(out, DATASET_DESCRIPTION,
        TextOf([Name |-> "FreeSurfer Derivatives", DatasetType |-> "derivative",
                GeneratedBy |->
                  <<[Name |-> "FreeSurfer",
                     Version |-> VersionOf(version_info, "freesurfer", fs_version)],
                    [Name |-> "freesurfer-nidm-bidsapp",
                     Version |-> VersionOf(version_info, "freesurfer-nidm_bidsapp",
                                           "unknown")]>>]))

\* _create_dataset_description
_create_dataset_description(out, version_info, fs_version) ==
    IF DATASET_DESCRIPTION \in DOMAIN out THEN out
    ELSE Put(out, DATASET_DESCRIPTION,
             TextOf([Name |-> "FreeSurfer Derivatives", DatasetType |-> "derivative",
                     GeneratedBy |->
                       <<[Name |-> "FreeSurfer",
                          Version |-> VersionOf(version_info, "freesurfer", fs_version)],
                         [Name |-> "freesurfer-nidm-bidsapp",
                          Version |-> VersionOf(version_info, "freesurfer-nidm_bidsapp",
                                                "unknown")]>>]))

\* _create_readme
_create_readme(out) ==
    IF README \in DOMAIN out THEN out ELSE Put(out, README, TextOf("FreeSurfer Derivatives"))

\* _organize_bids_output: the files below output_dir after it
_organize_bids_output(fs, out, vf, installed, subject_id, session) ==
    LET session_part == IF Truthy(session) THEN USES \o session ELSE EMPTY
        session_dir == IF Truthy(session) THEN SES \o session ELSE EMPTY
        fs_subject_id == IF Truthy(session)
                         THEN subject_id \o USES \o session ELSE subject_id
        names == mri_files(subject_id, session_part)
        mri == {[src |-> FsPath(fs_subject_id, "mri", n),
                 dest |-> OutPath(subject_id, session_dir, "anat", names[n])] :
                   n \in DOMAIN names}
        stats == {[src |-> f,
                   dest |-> OutPath(subject_id, session_dir, "stats",
                                    subject_id \o session_part \o <<"_">> \o f.name)] :
                     f \in {g \in fs : /\ g.dir = fs_subject_id /\ g.sub = "stats"
                                       /\ EndsWith(g.name, EXT_STATS)}}
        \* anat_dir.mkdir, stats_dir.mkdir
        out1 == Put(Put(out, OutPath(subject_id, session_dir, "anat", EMPTY), DirEntry),
                    OutPath(subject_id, session_dir, "stats", EMPTY), DirEntry)
    IN IF ~(\E f \in fs : f.dir = fs_subject_id) THEN out1
       ELSE _create_readme(
              _create_dataset_description(CopyAll(fs, CopyAll(fs, out1, mri), stats),
                                          get_version_info(vf, installed),
                                          get_freesurfer_version(vf)))

(***************************************************************************)
(* The specification.                                                      *)
(***************************************************************************)
\* no wrapper is being constructed and no output is being organized
IdleUnits ==
    /\ FREESURFER_HOME = TRUE
    /\ freesurfer_license = "none"
    /\ licenseFiles = {}
    /\ FS_LICENSE = "unset"
    /\ lookups = << >>
    /\ constructed = "none"
    /\ fsTree = {}
    /\ outTree = EmptyMap
    /\ versionFile = << >>
    /\ organized = << >>
    /\ IdleCommand
    /\ IdleWrappers
    /\ FirstRun

\* the markers a FreeSurfer directory may hold from earlier work
InitialMarkers == { {}, {SUB \o L1, SUB \o L1 \o USES \o SA} }

Init ==
    /\ mode \in {"cli", "api"}
    /\ pc = "ready"
    /\ calls = 0
    /\ dataset \in Datasets
    /\ done \in InitialMarkers
    /\ inDir \in (IF mode = "cli" THEN {"absent", "separate", "same"} ELSE {"absent"})
    /\ inFiles \in (IF inDir = "separate" THEN InputDirs ELSE {EmptyMap})
    /\ outFiles \in (IF inDir = "same" THEN InputDirs
                     ELSE IF mode = "cli" /\ inDir = "absent" THEN PriorOutputs
                     ELSE {EmptyMap})
    /\ nidmDirExists = (inDir = "same" \/ outFiles # EmptyMap)
    /\ summaryFile = << >>
    /\ args = NoArgs
    /\ participant_label = EMPTY
    /\ session_label = EMPTY
    /\ nidm_input_dir = FALSE
    /\ exitCode = "none"
    /\ exitReason = "none"
    /\ results = NoResults
    /\ subject_t1_mapping = EmptyMap
    /\ ps = NoFrame
    /\ psArgs = NoCall
    /\ psResult = "none"
    /\ markerAtCall = {}
    /\ reconLog = << >>
    /\ reconExits = << >>
    /\ SUBJECTS_DIR = (IF mode = "api" THEN OUTPUT_DIR \o <<"freesurfer">> ELSE << >>)
    /\ madeDirs = (IF mode = "api" THEN {OUTPUT_DIR, OUTPUT_DIR \o <<"freesurfer">>} ELSE {})
    /\ IdleUnits
    /\ nc = NoNidm
    /\ convLog = << >>
    /\ inSnapshot = EmptyMap
    /\ convFiles = EmptyMap
    /\ aggSources = << >>
    /\ aggregated = << >>


Next ==
    \/ \E level \in {"participant", "session"}, plabel \in ParticipantArgs,
          slabel \in SessionArgs, skip_nidm \in BOOLEAN, option \in FurtherOptions,
          initOutcome \in InitOutcomes :
          CliStart(level, plabel, slabel, skip_nidm, option, initOutcome)
    \/ \E queryFails \in QueryFailures : CliProcessSubject(queryFails)
    \/ \E returncode_zero \in BOOLEAN, organizeOk \in BOOLEAN :
          ReconAllReturns(returncode_zero, organizeOk)
    \/ \E summaryOk \in BOOLEAN, installed \in InstalledVersions :
          AfterProcessSubject(summaryOk, installed)
    \/ \E mkdirOk \in BOOLEAN, copyOk \in BOOLEAN,
          existing \in ExistingCandidates(nidm_input_dir, inDir # "absent", InputFiles) :
          NidmBegin(mkdirOk, copyOk, existing)
    \/ \E returncode_zero \in BOOLEAN, writes \in ConverterWrites,
          effect \in ConverterEffects :
          ConverterReturns(returncode_zero, writes, effect)
    \/ \E subject_id \in ApiSubjects, layoutGiven \in BOOLEAN, session \in ApiSessions,
          layoutOk \in BOOLEAN, queryFails \in QueryFailures :
          ApiCall(subject_id, layoutGiven, session, layoutOk, queryFails)

Spec == Init /\ [][Next]_vars

(***************************************************************************)
(* _organize_bids_output on its own: calls on a wrapper whose FreeSurfer   *)
(* directory holds what recon-all left there.                              *)
(***************************************************************************)
\* no run and no call of process_subject is under way
IdleRun ==
    /\ pc = "ready"
    /\ calls = 0
    /\ dataset = DatasetFlat
    /\ done = {}
    /\ inDir = "absent"
    /\ inFiles = EmptyMap
    /\ outFiles = EmptyMap
    /\ nidmDirExists = FALSE
    /\ summaryFile = << >>
    /\ args = NoArgs
    /\ participant_label = EMPTY
    /\ session_label = EMPTY
    /\ nidm_input_dir = FALSE
    /\ exitCode = "none"
    /\ exitReason = "none"
    /\ results = NoResults
    /\ subject_t1_mapping = EmptyMap
    /\ ps = NoFrame
    /\ psArgs = NoCall
    /\ psResult = "none"
    /\ markerAtCall = {}
    /\ reconLog = << >>
    /\ reconExits = << >>
    /\ nc = NoNidm
    /\ convLog = << >>
    /\ inSnapshot = EmptyMap
    /\ convFiles = EmptyMap
    /\ aggSources = << >>
    /\ aggregated = << >>
    /\ SUBJECTS_DIR = << >>
    /\ madeDirs = {}

RECON_DONE == <<"recon-all.done">>
STAT_ASEG == <<"a">> \o EXT_STATS
STAT_LH == <<"l", "h">> \o EXT_STATS
STAT_LOG == <<"a", ".", "l", "o", "g">>

\* what freesurfer_dir may hold: nothing; all of sub-1; a part of sub-1_ses-A
\* and a stray file of sub-1; a sub-2 without mri and stats
FsTrees ==
    { {},
      {FsPath(SUB \o L1, "scripts", RECON_DONE), FsPath(SUB \o L1, "mri", BRAIN_MGZ),
       FsPath(SUB \o L1, "mri", APARC_MGZ), FsPath(SUB \o L1, "mri", WMPARC_MGZ),
       FsPath(SUB \o L1, "stats", STAT_ASEG), FsPath(SUB \o L1, "stats", STAT_LH),
       FsPath(SUB \o L1, "stats", STAT_LOG)},
      {FsPath(SUB \o L1 \o USES \o SA, "scripts", RECON_DONE),
       FsPath(SUB \o L1 \o USES \o SA, "mri", BRAIN_MGZ),
       FsPath(SUB \o L1 \o USES \o SA, "stats", STAT_ASEG),
       FsPath(SUB \o L1, "mri", WMPARC_MGZ)},
      {FsPath(SUB \o L2, "scripts", RECON_DONE)} }

\* a dataset_description.json of an earlier version of the app
OldDescription ==
    TextOf([Name |-> "FreeSurfer Derivatives", DatasetType |-> "derivative",
            GeneratedBy |-> <<[Name |-> "FreeSurfer", Version |-> "6.0.0"]>>])

\* a README somebody wrote
OldReadme == TextOf("notes")

OutTrees ==
    { EmptyMap,
      [p \in {DATASET_DESCRIPTION} |-> OldDescription],
      [p \in {README} |-> OldReadme] }

\* the VERSION file: absent, or JSON with a version under some of the keys
VersionFiles ==
    { << >>,
      <<[k \in {"freesurfer"} |-> "7.4.1"]>>,
      <<[k \in {"freesurfer", "freesurfer_bidsapp"} |->
           IF k = "freesurfer" THEN "7.4.1" ELSE "0.1.0"]>>,
      <<[k \in {"freesurfer", "freesurfer-nidm_bidsapp"} |->
           IF k = "freesurfer" THEN "7.4.1" ELSE "0.2.0"]>> }


InitOrganize ==
    /\ mode = "organize"
    /\ IdleRun
    /\ FREESURFER_HOME = TRUE
    /\ freesurfer_license = "none"
    /\ licenseFiles = {}
    /\ FS_LICENSE = "unset"
    /\ lookups = << >>
    /\ constructed = "ok"
    /\ fsTree \in FsTrees
    /\ outTree \in OutTrees
    /\ versionFile \in VersionFiles
    /\ organized = << >>
    /\ IdleCommand
    /\ IdleWrappers
    /\ FirstRun

\* wrapper._organize_bids_output(subject_id, session_label)
Organize(subject_id, session, installed) ==
    /\ mode = "organize"
    /\ Len(organized) < MaxOrganize
    /\ outTree' = _organize_bids_output(fsTree, outTree, versionFile, installed,
                                        subject_id, session)
    /\ organized' = Append(organized, [subject_id |-> subject_id, session_label |-> session])
    /\ UNCHANGED <<mode, pc, calls, fsVars, runVars, wrapperVars, nidmVars, dirVars,
                   envVars, fsTree, versionFile, cmdVars, multiVars, earlier>>

NextOrganize ==
    \E subject_id \in {SUB \o L1, SUB \o L2}, session \in {EMPTY, SA},
       installed \in InstalledVersions :
       Organize(subject_id, session, installed)

SpecOrganize == InitOrganize /\ [][NextOrganize]_vars

(***************************************************************************)
(* The construction of a FreeSurferWrapper on its own: the environment    *)
(* and the license files it finds.                                         *)
(***************************************************************************)
LICENSE_ROOT == "/license.txt"
LICENSE_HOME == "$FREESURFER_HOME/license.txt"
LICENSE_USER == "~/.freesurfer.txt"
LICENSE_GIVEN == "<freesurfer_license>"

\* a variant that tries the user's home directory first
license_locations_UserFirst == <<LICENSE_USER, LICENSE_HOME, LICENSE_ROOT>>

\* _setup_freesurfer_env: "Try standard locations"
license_locations == <<LICENSE_ROOT, LICENSE_HOME, LICENSE_USER>>

\* the index of the first location of locs that exists, 0 when none does
FirstExisting(locs, files) ==
    LET found == {i \in DOMAIN locs : locs[i] \in files}
    IN IF found = {} THEN 0 ELSE CHOOSE i \in found : \A j \in found : i <= j

\* _setup_freesurfer_env.  home: FREESURFER_HOME is in os.environ; license:
\* self.freesurfer_license; files: the standard locations that exist;
\* fs_license, subjects_dir: the environment before the call
_setup_freesurfer_env(home, license, files, fs_license, subjects_dir, freesurfer_dir) ==
    IF ~home
    THEN [raised |-> "EnvironmentError", FS_LICENSE |-> fs_license,
          SUBJECTS_DIR |-> subjects_dir, lookups |-> << >>]
    ELSE IF license # "none"
    THEN [raised |-> IF license = "exists" THEN "none" ELSE "FileNotFoundError",
          FS_LICENSE |-> IF license = "exists" THEN LICENSE_GIVEN ELSE fs_license,
          SUBJECTS_DIR |-> freesurfer_dir, lookups |-> <<LICENSE_GIVEN>>]
    ELSE LET i == FirstExisting(license_locations, files)
         IN IF i = 0
            THEN [raised |-> "FileNotFoundError", FS_LICENSE |-> fs_license,
                  SUBJECTS_DIR |-> freesurfer_dir, lookups |-> license_locations]
            ELSE [raised |-> "none", FS_LICENSE |-> license_locations[i],
                  SUBJECTS_DIR |-> freesurfer_dir,
                  lookups |-> SubSeq(license_locations, 1, i)]

InitConstruct ==
    /\ mode = "construct"
    /\ IdleRun
    /\ FREESURFER_HOME \in BOOLEAN
    /\ freesurfer_license \in {"none", "exists", "missing"}
    /\ licenseFiles \in SUBSET {LICENSE_ROOT, LICENSE_HOME, LICENSE_USER}
    /\ FS_LICENSE \in {"unset", "/old/license.txt"}
    /\ lookups = << >>
    /\ constructed = "none"
    /\ fsTree = {}
    /\ outTree = EmptyMap
    /\ versionFile = << >>
    /\ organized = << >>
    /\ IdleCommand
    /\ IdleWrappers
    /\ FirstRun

\* FreeSurferWrapper(bids_dir, output_dir, freesurfer_license)
Construct ==
    /\ mode = "construct"
    /\ constructed = "none"
    /\ LET freesurfer_dir == OUTPUT_DIR \o <<"freesurfer">>
           e == _setup_freesurfer_env(FREESURFER_HOME, freesurfer_license, licenseFiles,
                                      FS_LICENSE, SUBJECTS_DIR, freesurfer_dir)
       IN /\ madeDirs' = madeDirs \cup {OUTPUT_DIR, freesurfer_dir}
          /\ SUBJECTS_DIR' = e.SUBJECTS_DIR
          /\ FS_LICENSE' = e.FS_LICENSE
          /\ lookups' = e.lookups
          /\ constructed' = IF e.raised = "none" THEN "ok" ELSE e.raised
    /\ UNCHANGED <<mode, pc, calls, fsVars, runVars, wrapperVars, nidmVars,
                   FREESURFER_HOME, freesurfer_license, licenseFiles, orgVars,
                   cmdVars, multiVars, earlier>>

NextConstruct == Construct

SpecConstruct == InitConstruct /\ [][NextConstruct]_vars

(***************************************************************************)
(* _create_recon_all_command on its own, for lists of images of any        *)
(* content up to a length.                                                 *)
(***************************************************************************)
SeqsUpTo(S, n) == UNION {[1..k -> S] : k \in 0..n}

T1wPaths == {<<"a">>, <<"b">>}
T2wPaths == {<<"c">>, <<"d">>}

InitCommand ==
    /\ mode = "command"
    /\ IdleRun
    /\ FREESURFER_HOME = TRUE
    /\ freesurfer_license = "none"
    /\ licenseFiles = {}
    /\ FS_LICENSE = "unset"
    /\ lookups = << >>
    /\ constructed = "ok"
    /\ fsTree = {}
    /\ outTree = EmptyMap
    /\ versionFile = << >>
    /\ organized = << >>
    /\ IdleWrappers
    /\ FirstRun
    /\ cmdArgs \in [subject_id : {SUB \o L1, SUB \o L2},
                    t1w_images : SeqsUpTo(T1wPaths, MaxImages) \ {<< >>},
                    t2w_images : SeqsUpTo(T2wPaths, 2),
                    session_label : {EMPTY, SA, SES \o SA}]
    /\ cmdBuilt = << >>

\* wrapper._create_recon_all_command(subject_id, t1w_images, t2w_images, session_label)
CreateCommand ==
    /\ mode = "command"
    /\ cmdBuilt = << >>
    /\ cmdBuilt' = <<_create_recon_all_command(cmdArgs.subject_id, cmdArgs.t1w_images,
                                               cmdArgs.t2w_images, cmdArgs.session_label)>>
    /\ UNCHANGED <<mode, pc, calls, fsVars, runVars, wrapperVars, nidmVars, dirVars,
                   envVars, orgVars, cmdArgs, multiVars, earlier>>

NextCommand == CreateCommand

SpecCommand == InitCommand /\ [][NextCommand]_vars

(***************************************************************************)
(* Several FreeSurferWrappers in one process: each has its own output_dir, *)
(* results and subject_t1_mapping; os.environ is the process's.            *)
(***************************************************************************)
OTHER_DIR == <<"other_dir">>
WrapperDirs == {OUTPUT_DIR, OTHER_DIR}

\* self.freesurfer_dir
FreesurferDirOf(wrapper) == wrapper.output_dir \o <<"freesurfer">>

\* the FreeSurfer subject IDs with scripts/recon-all.done below a directory
MarkersIn(dir) == IF dir \in DOMAIN doneIn THEN doneIn[dir] ELSE {}

InitWrappers ==
    /\ mode = "wrappers"
    /\ IdleRun
    /\ FREESURFER_HOME = TRUE
    /\ freesurfer_license = "exists"
    /\ licenseFiles = {}
    /\ FS_LICENSE = "unset"
    /\ lookups = << >>
    /\ constructed = "none"
    /\ fsTree = {}
    /\ outTree = EmptyMap
    /\ versionFile = << >>
    /\ organized = << >>
    /\ IdleCommand
    /\ IdleWrappers
    /\ FirstRun

\* FreeSurferWrapper(bids_dir, output_dir, freesurfer_license)
ConstructWrapper(output_dir) ==
    /\ mode = "wrappers"
    /\ Len(wrappers) < MaxWrappers
    /\ LET w == [output_dir |-> output_dir, results |-> NoResults,
                 subject_t1_mapping |-> EmptyMap]
           e == _setup_freesurfer_env(FREESURFER_HOME, freesurfer_license, licenseFiles,
                                      FS_LICENSE, SUBJECTS_DIR, FreesurferDirOf(w))
       IN /\ madeDirs' = madeDirs \cup {output_dir, FreesurferDirOf(w)}
          /\ SUBJECTS_DIR' = e.SUBJECTS_DIR
          /\ FS_LICENSE' = e.FS_LICENSE
          /\ lookups' = e.lookups
          /\ constructed' = IF e.raised = "none" THEN "ok" ELSE e.raised
          /\ wrappers' = IF e.raised = "none" THEN Append(wrappers, w) ELSE wrappers
    /\ UNCHANGED <<mode, pc, calls, fsVars, runVars, wrapperVars, nidmVars,
                   FREESURFER_HOME, freesurfer_license, licenseFiles, orgVars,
                   cmdVars, reconEnvs, doneIn, earlier>>

\* wrappers[w].process_subject(subject_id, layout), from the call to the
\* return: recon-all works below the SUBJECTS_DIR of its environment, which
\* subprocess.run hands on from os.environ, and with exit status zero
\* leaves scripts/recon-all.done in the directory of its -subjid there
WrapperProcessSubject(w, subject_id, returncode_zero, organizeOk) ==
    /\ mode = "wrappers"
    /\ w \in DOMAIN wrappers
    /\ calls < MaxCalls
    /\ calls' = calls + 1
    /\ LET self == wrappers[w]
           r == ProcessSubjectEnter(self.results, self.subject_t1_mapping,
                                    MarkersIn(FreesurferDirOf(self)), dataset,
                                    subject_id, TRUE, EMPTY, TRUE, "none")
           ran == r.outcome = "run"
           end == IF ran THEN ProcessSubjectResume(r.results, r.frame, returncode_zero,
                                                   organizeOk)
                  ELSE [outcome |-> r.outcome, results |-> r.results]
       IN /\ wrappers' = [wrappers EXCEPT ![w].results = end.results,
                                          ![w].subject_t1_mapping = r.mapping]
          /\ reconEnvs' = IF ran
                          THEN Append(reconEnvs, [wrapper |-> w, cmd |-> r.frame.cmd,
                                                  SUBJECTS_DIR |-> SUBJECTS_DIR])
                          ELSE reconEnvs
          /\ doneIn' = IF ran /\ returncode_zero
                       THEN Put(doneIn, SUBJECTS_DIR,
                                MarkersIn(SUBJECTS_DIR) \cup {SubjIdOf(r.frame.cmd)})
                       ELSE doneIn
    /\ UNCHANGED <<mode, pc, fsVars, runVars, wrapperVars, nidmVars, dirVars,
                   envVars, orgVars, cmdVars, earlier>>

NextWrappers ==
    \/ \E output_dir \in WrapperDirs : ConstructWrapper(output_dir)
    \/ \E w \in 1..MaxWrappers, subject_id \in {SUB \o L1, SUB \o L3},
          returncode_zero \in BOOLEAN, organizeOk \in BOOLEAN :
          WrapperProcessSubject(w, subject_id, returncode_zero, organizeOk)

SpecWrappers == InitWrappers /\ [][NextWrappers]_vars

(***************************************************************************)
(* Successive participant-level runs of the program on one file system:    *)
(* what a run leaves in freesurfer_dir, in nidm_dir and in the NIDM input  *)
(* directory is what the next run finds.                                   *)
(***************************************************************************)
\* the files a converter run for a subject may write: none, or its data in
\* Turtle or in JSON-LD
RunWrites(plabel) ==
    { EmptyMap,
      [n \in {OUT_TTL} |-> File({DataOf(SUB \o plabel)}, "turtle")],
      [n \in {OUT_JSON} |-> File({DataOf(SUB \o plabel)}, "json-ld")] }

InitRuns ==
    /\ mode = "cli"
    /\ pc = "ready"
    /\ calls = 0
    /\ dataset = DatasetSessions
    /\ done = {}
    /\ inDir \in {"absent", "separate", "same"}
    /\ inFiles \in (IF inDir = "separate" THEN InputDirs ELSE {EmptyMap})
    /\ outFiles \in (IF inDir = "same" THEN InputDirs ELSE {EmptyMap})
    /\ nidmDirExists = (inDir = "same")
    /\ summaryFile = << >>
    /\ args = NoArgs
    /\ participant_label = EMPTY
    /\ session_label = EMPTY
    /\ nidm_input_dir = FALSE
    /\ exitCode = "none"
    /\ exitReason = "none"
    /\ results = NoResults
    /\ subject_t1_mapping = EmptyMap
    /\ ps = NoFrame
    /\ psArgs = NoCall
    /\ psResult = "none"
    /\ markerAtCall = {}
    /\ reconLog = << >>
    /\ reconExits = << >>
    /\ SUBJECTS_DIR = << >>
    /\ madeDirs = {}
    /\ IdleUnits
    /\ nc = NoNidm
    /\ convLog = << >>
    /\ inSnapshot = EmptyMap
    /\ convFiles = EmptyMap
    /\ aggSources = << >>
    /\ aggregated = << >>

\* the program has ended and is started again: main() calls cli anew
StartNextRun ==
    /\ mode = "cli"
    /\ pc = "exit"
    /\ Len(earlier) < MaxRuns - 1
    /\ pc' = "ready"
    /\ earlier' = Append(earlier, [subject |-> SUB \o participant_label,
                                   inSnapshot |-> inSnapshot, nc |-> nc,
                                   convFiles |-> convFiles, aggregated |-> aggregated,
                                   exitCode |-> exitCode, left |-> outFiles])
    /\ UNCHANGED <<mode, calls, fsVars, runVars, wrapperVars, nidmVars, dirVars,
                   envVars, orgVars, cmdVars, multiVars>>

NextRuns ==
    \/ \E plabel \in {L1, L2} : CliStart("participant", plabel, EMPTY, FALSE, "", "ok")
    \/ CliProcessSubject("none")
    \/ \E returncode_zero \in BOOLEAN : ReconAllReturns(returncode_zero, TRUE)
    \/ AfterProcessSubject(TRUE, "unknown")
    \/ \E existing \in ExistingCandidates(nidm_input_dir, inDir # "absent", InputFiles) :
          NidmBegin(TRUE, TRUE, existing)
    \/ \E returncode_zero \in BOOLEAN, writes \in RunWrites(participant_label),
          effect \in ConverterEffects :
          ConverterReturns(returncode_zero, writes, effect)
    \/ StartNextRun

SpecRuns == InitRuns /\ [][NextRuns]_vars



(***************************************************************************)
(* Properties of one command-line run and of direct calls of               *)
(* process_subject.                                                        *)
(***************************************************************************)
\* the converter invocations of the run
Invocations == Len(convLog)

\* C1 as the specification states it: in a command-line run the converter is
\* invoked at most once, only after process_subject has returned, and a
\* finished run has invoked it if and only if process_subject returned True
\* and --skip-nidm was not given
C1_AsStated ==
    mode = "cli" =>
        /\ Invocations <= 1
        /\ Invocations = 1 => psResult \in {"True", "False"}
        /\ args.skip_nidm => Invocations = 0
        /\ pc = "exit" => (Invocations = 1 <=> (psResult = "True" /\ ~args.skip_nidm))

\* the file-system steps between the return of process_subject and the start
\* of the converter whose failure ends the run with status 1
SetupFailures == {"summary", "mkdir", "copy"}

\* C1: in a command-line run the converter is invoked at most once and only
\* after process_subject has returned True without --skip-nidm; a finished
\* run with process_subject returning True and no --skip-nidm has invoked it
\* unless writing the processing summary, creating nidm_dir or copying the
\* existing NIDM file failed, and then the run ended with status 1
C1_ConverterOnce ==
    mode = "cli" =>
        /\ Invocations <= 1
        /\ Invocations = 1 => (psResult = "True" /\ ~args.skip_nidm)
        /\ args.skip_nidm => Invocations = 0
        /\ (pc = "exit" /\ psResult = "True" /\ ~args.skip_nidm)
              => \/ Invocations = 1
                 \/ exitReason \in SetupFailures /\ exitCode = "1"

\* a finished run that invoked the converter after process_subject returned
\* True
C1_Witness ==
    /\ mode = "cli" /\ pc = "exit" /\ exitCode = "0"
    /\ psResult = "True" /\ ~args.skip_nidm /\ Invocations = 1

\* C2 as the specification states it: skip-if-done is idempotent, recon-all
\* is never started for a FreeSurfer subject whose directory already holds
\* scripts/recon-all.done
C2_AsStated ==
    psResult = "run" => SubjIdOf(ps.cmd) \notin markerAtCall

\* C3 as the specification states it: process_subject never propagates an
\* exception, and a subject ID that does not start with "sub-" or a layout
\* that cannot be created makes it return False with an entry in
\* results["failure"]
C3_AsStated ==
    /\ psResult # "raise"
    /\ (psResult # "none" /\ ~StartsWith(psArgs.subject_id, SUB))
          => (psResult = "False" /\ Len(results.failure) >= 1)

\* C4 as the specification states it: a command-line run in which FreeSurfer
\* processing failed (an entry in results["failure"]) ends with status 1
C4_AsStated ==
    (mode = "cli" /\ pc = "exit" /\ Len(results.failure) >= 1) => exitCode = "1"

\* the labels of the command line with their prefixes stripped
TypedSubject == StripParticipant(args.participant_label)
TypedSession == StripSession(args.session_label)

\* the participant label of the run is not a subject of the dataset, or at
\* session level its session label is not a session of that subject
InvalidLabels ==
    \/ TypedSubject \notin GetSubjects(dataset)
    \/ args.level = "session" /\ TypedSession \notin GetSessions(dataset, TypedSubject)

\* the run has got to process_subject
Reached == pc = "call" \/ psResult # "none"

\* C5: label validation gates processing.  A run entered cli whose participant
\* label is not among the subjects, or at session level whose session label
\* is not among the sessions of the subject, has exited with status 1 with
\* no call of process_subject, no recon-all, no processing summary written
\* and no converter invocation
C5_ValidationGates ==
    (mode = "cli" /\ pc # "ready" /\ exitReason # "usage" /\ InvalidLabels)
       => /\ pc = "exit" /\ exitCode = "1"
          /\ psResult = "none"
          /\ reconLog = << >>
          /\ summaryFile = << >>
          /\ convLog = << >>

\* a session-level run for a subject of the dataset and a session that is
\* not one of its sessions has exited
C5_Witness ==
    /\ mode = "cli" /\ pc = "exit" /\ args.level = "session"
    /\ TypedSubject \in GetSubjects(dataset)
    /\ Truthy(args.session_label)
    /\ TypedSession \notin GetSessions(dataset, TypedSubject)
    /\ exitCode = "1"

\* the labels L without the prefix of which the typed label is L or prefix+L
Forms(label, prefix) ==
    {L \in {label, Slice4(label)} :
        ~StartsWith(L, prefix) /\ label \in {L, prefix \o L}}

\* every FreeSurfer subject ID the run has produced is id
ProducesOnly(id) ==
    /\ DOMAIN subject_t1_mapping \subseteq {id}
    /\ \A i \in 1..Len(reconLog) : SubjIdOf(reconLog[i]) = id
    /\ \A k \in {"success", "failure", "skipped"} :
          \A i \in 1..Len(results[k]) : results[k][i] = id
    /\ nc.fs_subject_id \in {EMPTY, id}

\* C6: label normalisation.  For L not starting with "sub-" a run typed
\* with L or with "sub-"+L calls process_subject with subject ID "sub-"+L,
\* and for S not starting with "ses-" a session-level run typed with S or
\* "ses-"+S calls it with session label S and produces only the FreeSurfer
\* subject ID sub-L_ses-S; whether process_subject is reached depends on L
\* and S alone, not on the form typed
C6_Normalised ==
    (mode = "cli" /\ pc # "ready") =>
      \A L \in Forms(args.participant_label, SUB) :
        /\ psResult # "none" => psArgs.subject_id = SUB \o L
        /\ args.level = "participant" =>
              /\ psResult # "none" => ProducesOnly(SUB \o L)
              /\ exitReason \notin {"usage", "layout", "wrapper"} =>
                    (Reached <=> L \in GetSubjects(dataset))
        /\ args.level = "session" =>
              \A S \in Forms(args.session_label, SES) :
                /\ psResult # "none" =>
                      /\ psArgs.session_label = S
                      /\ ProducesOnly(SUB \o L \o USES \o S)
                /\ exitReason \notin {"usage", "layout", "wrapper"} =>
                      (Reached <=> /\ L \in GetSubjects(dataset)
                                   /\ S \in GetSessions(dataset, L))

\* a session-level run typed with both prefixes has run recon-all
C6_Witness ==
    /\ mode = "cli" /\ args.level = "session"
    /\ StartsWith(args.participant_label, SUB)
    /\ StartsWith(args.session_label, SES)
    /\ psResult = "True"
    /\ Len(reconLog) = 1
    /\ Len(results.success) = 1

\* the converter of the run ended with status zero
ConverterSucceeded ==
    mode = "cli" /\ pc = "exit" /\ Invocations = 1 /\ exitReason = "complete"

\* a file parses as the RDF its name announces (suffixes without regard to
\* case)
Readable(name, f) ==
    \/ Lower(Suffix(name)) \in {EXT_TTL, EXT_TURTLE, EXT_N3} /\ f.format = "turtle"
    \/ Lower(Suffix(name)) \in {EXT_JSON, EXT_JSONLD, EXT_JSON_LD} /\ f.format = "json-ld"

NamedFile(dir, name, f) == [dir |-> dir, name |-> name, file |-> f]

\* the existing NIDM file as it is to be read: its copy in nidm_dir, and the
\* file of the NIDM input directory where the converter left no copy
ExistingSource ==
    IF ~Truthy(nc.existing_nidm_file) THEN {}
    ELSE IF nc.existing_nidm_file \in DOMAIN convFiles
    THEN {NamedFile("nidm_dir", nc.existing_nidm_file, convFiles[nc.existing_nidm_file])}
    ELSE IF nc.existing_nidm_file \in DOMAIN InputFiles
    THEN {NamedFile("nidm_input_dir", nc.existing_nidm_file,
                    InputFiles[nc.existing_nidm_file])}
    ELSE {}

\* the files the converter created in nidm_dir with an RDF suffix
NewSources ==
    {NamedFile("nidm_dir", n, convFiles[n]) :
        n \in {m \in DOMAIN convFiles \ nc.existing_outputs :
                  Lower(Suffix(m)) \in {EXT_TTL, EXT_JSON, EXT_JSONLD, EXT_JSON_LD}}}

ExpectedSources == ExistingSource \cup NewSources

ExpectedGraph ==
    UNION {s.file.triples : s \in {x \in ExpectedSources : Readable(x.name, x.file)}}

\* C7: after a converter run with status zero the sources aggregated are the
\* existing NIDM file and the files the converter created in nidm_dir with
\* suffix .ttl, .json, .jsonld or .json-ld, each once, and the graph written
\* is the union of the triples of those of them that parse (nothing is
\* written when that union is empty)
C7_AggregatedUnion ==
    ConverterSucceeded =>
        /\ {Source(s.dir, s.name) : s \in ExpectedSources}
              = {aggSources[i] : i \in 1..Len(aggSources)}
        /\ \A i, j \in 1..Len(aggSources) : aggSources[i] = aggSources[j] => i = j
        /\ aggregated = IF ExpectedGraph = {} THEN << >> ELSE <<ExpectedGraph>>

\* a run that aggregated the copy of the existing file and two new files,
\* one of which did not parse
C7_Witness ==
    /\ ConverterSucceeded
    /\ Len(aggSources) = 3
    /\ Source("nidm_dir", nc.copied_nidm) \in {aggSources[i] : i \in 1..Len(aggSources)}
    /\ \E s \in NewSources : ~Readable(s.name, s.file)
    /\ aggregated # << >> /\ Cardinality(aggregated[1]) >= 2

\* the name the outputs of the run are to have, without suffix
OutputBase ==
    IF args.level = "session"
    THEN SUB \o TypedSubject \o USES \o TypedSession
    ELSE SUB \o TypedSubject

\* C8: the aggregated graph of a run is in nidm_dir as sub-<label>.ttl and
\* sub-<label>.jsonld at participant level and as
\* sub-<label>_ses-<session>.ttl and .jsonld at session level; the app adds
\* no other file after the converter and no name in nidm_dir is a path into
\* a subdirectory
C8_FlatOutputs ==
    (mode = "cli" /\ aggregated # << >>) =>
        /\ OutputBase \o EXT_TTL \in DOMAIN outFiles
        /\ OutputBase \o EXT_JSONLD \in DOMAIN outFiles
        /\ outFiles[OutputBase \o EXT_TTL] = File(aggregated[1], "turtle")
        /\ outFiles[OutputBase \o EXT_JSONLD] = File(aggregated[1], "json-ld")
        /\ (DOMAIN outFiles) \ (DOMAIN convFiles)
              \subseteq {OutputBase \o EXT_TTL, OutputBase \o EXT_JSONLD}
        /\ \A n \in DOMAIN outFiles : \A i \in 1..Len(n) : n[i] # "/"

\* a session-level run that wrote its aggregated graph
C8_Witness ==
    /\ ConverterSucceeded /\ args.level = "session"
    /\ aggregated # << >>
    /\ SUB \o L1 \o USES \o SA \o EXT_JSONLD \in DOMAIN outFiles

HasPair(c, a, b) == \E i \in 1..(Len(c) - 1) : c[i] = a /\ c[i + 1] = b

Count(c, tok) == Cardinality({i \in 1..Len(c) : c[i] = tok})

\* the NIDM input directory held a file the search of nidm_conversion finds
FoundExisting ==
    /\ inDir # "absent"
    /\ \E n \in DOMAIN inSnapshot :
          EndsWith(n, EXT_TTL) \/ EndsWith(n, EXT_JSONLD) \/ EndsWith(n, EXT_JSON_LD)

\* C9: every converter command line has "-m segstats_jsonld.fs_to_nidm",
\* "-s <freesurfer_dir>/<fs_subject_id>" and "-j", and exactly one of -n and
\* -o: -n with a file and --forcenidm if and only if the NIDM input
\* directory held an existing NIDM file, otherwise -o with nidm_dir
C9_CommandShape ==
    mode = "cli" =>
      \A k \in 1..Len(convLog) :
        LET c == convLog[k]
        IN /\ HasPair(c, Lit("-m"), Lit("segstats_jsonld.fs_to_nidm"))
           /\ HasPair(c, Lit("-s"), PathTok("freesurfer_dir", OutputBase))
           /\ Count(c, Lit("-j")) = 1
           /\ Count(c, Lit("-n")) + Count(c, Lit("-o")) = 1
           /\ Count(c, Lit("-n")) = 1 <=> FoundExisting
           /\ Count(c, Lit("-n")) = 1 =>
                 /\ ArgAfter(c, "-n").kind = "path"
                 /\ Truthy(ArgAfter(c, "-n").name)
                 /\ Count(c, Lit("--forcenidm")) = 1
           /\ Count(c, Lit("-o")) = 1 => ArgAfter(c, "-o") = PathTok("nidm_dir", EMPTY)

\* a session-level run gave the converter -n for the file it found
C9_Witness ==
    /\ mode = "cli" /\ Invocations = 1 /\ args.level = "session"
    /\ FoundExisting
    /\ ArgAfter(convLog[1], "-n") = PathTok("nidm_dir", NIDM_TTL)

\* the file found in the NIDM input directory is as it was when the run
\* started
OriginalUnchanged ==
    Truthy(nc.existing_nidm_file) =>
        /\ nc.existing_nidm_file \in DOMAIN InputFiles
        /\ InputFiles[nc.existing_nidm_file] = inSnapshot[nc.existing_nidm_file]

\* -n is followed by the path of the found file's name in nidm_dir, which
\* holds what the found file held when the converter starts
NamesCopy ==
    /\ \A k \in 1..Len(convLog) :
          Count(convLog[k], Lit("-n")) = 1 =>
              ArgAfter(convLog[k], "-n") = PathTok("nidm_dir", nc.existing_nidm_file)
    /\ (pc = "converter" /\ Truthy(nc.existing_nidm_file)) =>
          /\ nc.existing_nidm_file \in DOMAIN outFiles
          /\ outFiles[nc.existing_nidm_file] = inSnapshot[nc.existing_nidm_file]

\* a failed copy ends the run with status 1 before the converter
CopyFailureStops ==
    exitReason = "copy" => (pc = "exit" /\ exitCode = "1" /\ Invocations = 0)

\* C10 as the specification states it: the -n argument is the copy in
\* nidm_dir, the original file is left unchanged by the run, and a failed
\* copy ends the run with status 1 before the converter is invoked
C10_AsStated ==
    mode = "cli" => (NamesCopy /\ OriginalUnchanged /\ CopyFailureStops)

\* C10: the -n argument is the path of the found file's name in nidm_dir; when
\* the NIDM input directory is not nidm_dir itself that path is a copy and
\* the original file is left unchanged by the run, and a failed copy ends the
\* run with status 1 before the converter is invoked
C10_CopyProtectsInput ==
    mode = "cli" =>
        /\ NamesCopy
        /\ inDir # "same" => OriginalUnchanged
        /\ CopyFailureStops

\* the converter changed the copy in nidm_dir and the original is as it was
C10_Witness ==
    /\ mode = "cli" /\ pc = "exit" /\ inDir = "separate"
    /\ Truthy(nc.copied_nidm) /\ Invocations = 1
    /\ nc.copied_nidm \in DOMAIN convFiles
    /\ convFiles[nc.copied_nidm] # inSnapshot[nc.copied_nidm]
    /\ inFiles[nc.copied_nidm] = inSnapshot[nc.copied_nidm]

\* the run has entered nidm_conversion and searched the NIDM input directory
Searched == nc.fs_subject_id # EMPTY

\* C11: when <bids_dir>/../NIDM does not exist, or holds no .ttl, .jsonld
\* or .json-ld file, no copy is attempted, every converter command line has
\* "-o <nidm_dir>" and no -n, and a run in which process_subject returned
\* True without --skip-nidm does invoke the converter (unless writing the
\* summary or creating nidm_dir failed)
C11_NoExistingFile ==
    (mode = "cli" /\ ~FoundExisting) =>
        /\ \A k \in 1..Len(convLog) :
              /\ Count(convLog[k], Lit("-n")) = 0
              /\ HasPair(convLog[k], Lit("-o"), PathTok("nidm_dir", EMPTY))
        /\ Searched => (nc.existing_nidm_file = EMPTY /\ nc.copied_nidm = EMPTY)
        /\ exitReason # "copy"
        /\ (pc = "exit" /\ psResult = "True" /\ ~args.skip_nidm
              /\ exitReason \notin {"summary", "mkdir"}) => Invocations = 1

\* a run whose NIDM input directory holds only a file of another kind has
\* ended after a converter run with status zero
C11_Witness ==
    /\ ConverterSucceeded /\ exitCode = "0"
    /\ inDir = "separate" /\ DOMAIN inSnapshot = {IN_TXT}
    /\ ArgAfter(convLog[1], "-o") = PathTok("nidm_dir", EMPTY)

\* the names the NIDM input directory held when the run started
InputNames == IF inDir = "absent" THEN {} ELSE DOMAIN inSnapshot

Matching(ext) == {n \in InputNames : EndsWith(n, ext)}

\* C12: the existing NIDM file selected is nidm.ttl when the NIDM input
\* directory holds it, otherwise a *.ttl file when there is one, otherwise a
\* *.jsonld file when there is one, otherwise a *.json-ld file when there is
\* one, and none otherwise
C12_SelectionOrder ==
    (mode = "cli" /\ Searched) =>
        LET e == nc.existing_nidm_file
        IN IF NIDM_TTL \in InputNames THEN e = NIDM_TTL
           ELSE IF Matching(EXT_TTL) # {} THEN e \in Matching(EXT_TTL)
           ELSE IF Matching(EXT_JSONLD) # {} THEN e \in Matching(EXT_JSONLD)
           ELSE IF Matching(EXT_JSON_LD) # {} THEN e \in Matching(EXT_JSON_LD)
           ELSE e = EMPTY

\* a *.jsonld file was selected from a directory that also holds a *.json-ld
\* file
C12_Witness ==
    /\ mode = "cli" /\ Searched /\ Invocations = 1
    /\ IN_JSON_LD \in InputNames
    /\ nc.existing_nidm_file = IN_JSONLD

\* C13 as the specification states it: a command line with
\* --nidm-input-dir <dir> is not rejected at argument parsing
C13_AsStated ==
    (mode = "cli" /\ pc # "ready" /\ args.option = "--nidm-input-dir")
        => (exitReason # "usage" /\ exitCode # "2")

\* C14 as the specification states it: after a participant-level run in
\* which processing succeeded and NIDM was not skipped the directory
\* <output_dir>/freesurfer-nidm_bidsapp/nidm has been created and the
\* FreeSurfer subjects directory is
\* <output_dir>/freesurfer-nidm_bidsapp/freesurfer
C14_AsStated ==
    (mode = "cli" /\ pc = "exit" /\ exitCode = "0" /\ args.level = "participant"
        /\ psResult = "True" /\ ~args.skip_nidm)
      => /\ <<"output_dir", "freesurfer-nidm_bidsapp", "nidm">> \in madeDirs
         /\ SUBJECTS_DIR = <<"output_dir", "freesurfer-nidm_bidsapp", "freesurfer">>

\* the entries of GeneratedBy in the dataset_description.json that
\* _create_dataset_description wrote
GeneratedBy ==
    IF DATASET_DESCRIPTION \in DOMAIN outTree /\ outTree[DATASET_DESCRIPTION] # OldDescription
    THEN outTree[DATASET_DESCRIPTION].text[1].GeneratedBy
    ELSE << >>

\* C15 as the specification states it: no GeneratedBy entry of a
\* dataset_description.json created by _create_dataset_description has the
\* Version "unknown"
C15_AsStated ==
    mode = "organize" =>
        \A i \in 1..Len(GeneratedBy) : GeneratedBy[i].Version # "unknown"

\* the copies a call _organize_bids_output(subject, session) is to make: the
\* three volumes of mri and the *.stats files of stats that exist in the
\* FreeSurfer directory <subject>[_ses-<session>]
ExpectedCopies(call) ==
    LET s == call.subject_id
        S == call.session_label
        part == IF S = EMPTY THEN EMPTY ELSE USES \o S
        sesdir == IF S = EMPTY THEN EMPTY ELSE SES \o S
        volumes == {[src |-> BRAIN_MGZ, dest |-> <<"_desc-brain_T1w.nii.gz">>],
                    [src |-> APARC_MGZ, dest |-> <<"_desc-aparcaseg_dseg.nii.gz">>],
                    [src |-> WMPARC_MGZ, dest |-> <<"_desc-wmparc_dseg.nii.gz">>]}
    IN {[src |-> FsPath(s \o part, "mri", v.src),
         dest |-> OutPath(s, sesdir, "anat", s \o part \o v.dest)] :
           v \in {w \in volumes : FsPath(s \o part, "mri", w.src) \in fsTree}}
       \cup
       {[src |-> f,
         dest |-> OutPath(s, sesdir, "stats", s \o part \o <<"_">> \o f.name)] :
           f \in {g \in fsTree : /\ g.dir = s \o part /\ g.sub = "stats"
                                 /\ Len(g.name) >= 6
                                 /\ SubSeq(g.name, Len(g.name) - 5, Len(g.name))
                                      = <<".", "s", "t", "a", "t", "s">>}}

AllExpectedCopies == UNION {ExpectedCopies(organized[i]) : i \in 1..Len(organized)}

\* C18: after any calls of _organize_bids_output every volume of mri and
\* every *.stats file that exists in the FreeSurfer directory of a call is
\* copied to its destination below <output_dir>/<subject>[/ses-<session>],
\* and output_dir holds no other file than these destinations,
\* dataset_description.json and README: a source that does not exist leaves
\* no file
C18_Organized ==
    mode = "organize" =>
        /\ \A e \in AllExpectedCopies :
              e.dest \in DOMAIN outTree /\ outTree[e.dest] = CopyOf(e.src)
        /\ {p \in DOMAIN outTree : outTree[p].kind # "dir"}
              \subseteq {e.dest : e \in AllExpectedCopies} \cup {DATASET_DESCRIPTION, README}

\* the session sub-1_ses-A, of which brain.mgz and a.stats exist, was
\* organized: the brain volume is in ses-A/anat, the parcellation is not
C18_Witness ==
    /\ mode = "organize"
    /\ Len(organized) = 1 /\ organized[1].session_label = SA
    /\ OutPath(SUB \o L1, SES \o SA, "anat",
               SUB \o L1 \o USES \o SA \o <<"_desc-brain_T1w.nii.gz">>) \in DOMAIN outTree
    /\ OutPath(SUB \o L1, SES \o SA, "anat",
               SUB \o L1 \o USES \o SA \o <<"_desc-aparcaseg_dseg.nii.gz">>) \notin DOMAIN outTree
    /\ OutPath(SUB \o L1, SES \o SA, "stats",
               SUB \o L1 \o USES \o SA \o <<"_">> \o STAT_ASEG) \in DOMAIN outTree
    /\ README \in DOMAIN outTree


(***************************************************************************)
(* C16.  The bookkeeping of results.                                       *)
(***************************************************************************)
Lists == {"success", "failure", "skipped"}

\* the step in which a call of process_subject returns True or False
ReturnStep ==
    /\ pc' = "returned"
    /\ pc \in {"call", "recon"} \/ calls' # calls
    /\ psResult' \in {"True", "False"}

\* list l grows by exactly one entry at its end
GrowsByOne(l) ==
    /\ Len(results'[l]) = Len(results[l]) + 1
    /\ SubSeq(results'[l], 1, Len(results[l])) = results[l]

OneEntryToOneList ==
    \E l \in Lists : GrowsByOne(l) /\ \A m \in Lists \ {l} : results'[m] = results[m]

\* the step in which a run starts with a new wrapper
NewWrapper == pc = "ready" /\ mode = "cli" /\ results' = NoResults

ZeroExits == Cardinality({i \in DOMAIN reconExits : reconExits[i] = "0"})

SummaryConsistent ==
    LET s == get_processing_summary(results)
    IN /\ s.total = s.success + s.failure + s.skipped
       /\ s.success = Len(results.success) /\ s.success_list = results.success
       /\ s.failure = Len(results.failure) /\ s.failure_list = results.failure
       /\ s.skipped = Len(results.skipped) /\ s.skipped_list = results.skipped
       /\ s.success <= ZeroExits
       /\ (mode = "cli" /\ psResult \in {"True", "False"}) => s.total = 1
       /\ (mode = "cli" /\ psResult \notin {"True", "False"}) => s.total = 0
       /\ mode = "api" => s.total <= calls

Bookkeeping ==
    /\ ReturnStep => OneEntryToOneList
    /\ (~ReturnStep /\ ~NewWrapper) => results' = results
    /\ Len(results'.success) > Len(results.success)
         => pc = "recon" /\ reconExits' = Append(reconExits, "0")

\* C16: in every state the summary reports total = success + failure +
\* skipped, each count being the length of its list; every call of
\* process_subject that returns True or False appends exactly one entry to
\* exactly one of the three lists and no other step changes the lists (so
\* after n returned calls of a wrapper total = n); "success" grows only in
\* the step in which recon-all ended with exit status zero
C16_Bookkeeping == [] SummaryConsistent /\ [][Bookkeeping]_vars

\* two direct calls have returned, one a success and one not
C16_Witness ==
    /\ mode = "api" /\ calls = 2 /\ pc = "returned"
    /\ psResult \in {"True", "False"}
    /\ get_processing_summary(results).total = 2
    /\ Len(results.success) = 1
    /\ reconExits = <<"0", "1">>


(***************************************************************************)
(* C17.  The processing summary is saved before the conversion.            *)
(***************************************************************************)
ReturnedResult == psResult \in {"True", "False"}

\* processing_summary.json holds the summary of this run's results and the
\* version information
SummaryOnDisk ==
    /\ summaryFile # << >>
    /\ "version_info" \in DOMAIN summaryFile[1]
    /\ summaryFile[1].version_info
          \in {get_version_info(versionFile, i) : i \in InstalledVersions}
    /\ [k \in DOMAIN summaryFile[1] \ {"version_info"} |-> summaryFile[1][k]]
          = get_processing_summary(results)

\* C17 as stated: every finished run in which process_subject returned True
\* or False has written the processing summary
C17_AsStated ==
    (mode = "cli" /\ pc = "exit" /\ ReturnedResult) => SummaryOnDisk

\* C17: once nidm_conversion has been called (and so whenever the converter
\* has been started or has ended, with whatever status) the summary with
\* the version information is on disk; a finished run in which
\* process_subject returned True or False has written it unless the write
\* itself failed, and then the run ended with status 1 without starting the
\* converter; before process_subject has returned nothing is written
C17_SummaryBeforeConverter ==
    mode = "cli" =>
        /\ (pc \in {"nidm", "converter"} \/ Invocations >= 1) => SummaryOnDisk
        /\ (pc = "exit" /\ ReturnedResult)
              => \/ SummaryOnDisk
                 \/ /\ exitReason = "summary" /\ exitCode = "1"
                    /\ Invocations = 0 /\ summaryFile = << >>
        /\ ~ReturnedResult => summaryFile = << >>

\* the conversion ended with exit status 1 and the summary is on disk
C17_Witness ==
    /\ mode = "cli" /\ pc = "exit"
    /\ exitReason = "converter" /\ exitCode = "1"
    /\ Invocations = 1
    /\ SummaryOnDisk


(***************************************************************************)
(* C19.  The session label at the participant level.                       *)
(***************************************************************************)
\* C19: a participant-level run given a session label behaves as one
\* without it: the run has no session, process_subject is called with no
\* session label, every FreeSurfer subject ID produced is sub-<label> with
\* no _ses- part, the run never ends on the session validation, and
\* whether process_subject is reached depends on the subject alone
C19_SessionUnused ==
    (mode = "cli" /\ pc # "ready" /\ args.level = "participant"
       /\ Truthy(args.session_label)) =>
        /\ session_label = EMPTY
        /\ exitReason # "session"
        /\ psResult # "none" =>
              /\ psArgs.session_label = EMPTY
              /\ psArgs.subject_id = SUB \o TypedSubject
              /\ ProducesOnly(SUB \o TypedSubject)
        /\ exitReason \notin {"usage", "layout", "wrapper"} =>
              (Reached <=> TypedSubject \in GetSubjects(dataset))

\* a participant-level run given a session label that is not a session of
\* its subject has run recon-all and started the conversion
C19_Witness ==
    /\ mode = "cli" /\ args.level = "participant"
    /\ Truthy(args.session_label)
    /\ TypedSession \notin GetSessions(dataset, TypedSubject)
    /\ psResult = "True" /\ Len(reconLog) = 1
    /\ SubjIdOf(reconLog[1]) = SUB \o TypedSubject
    /\ nc.fs_subject_id = SUB \o TypedSubject


(***************************************************************************)
(* C20.  The license of a FreeSurferWrapper.                               *)
(***************************************************************************)
\* the license environment is as it was before the construction
LicenseUntouched == FS_LICENSE \in {"unset", "/old/license.txt"}

\* C20: a construction without FREESURFER_HOME raises EnvironmentError
\* having looked up no license; with a license path that exists FS_LICENSE
\* is that path; with a license path that does not exist FileNotFoundError
\* is raised and no standard location is looked up; with no license path
\* FS_LICENSE is /license.txt if it exists, else $FREESURFER_HOME/license.txt
\* if it exists, else ~/.freesurfer.txt if it exists, and FileNotFoundError
\* is raised when none exists
C20_LicenseResolution ==
    (mode = "construct" /\ constructed # "none") =>
        /\ ~FREESURFER_HOME =>
              /\ constructed = "EnvironmentError"
              /\ lookups = << >> /\ LicenseUntouched
        /\ (FREESURFER_HOME /\ freesurfer_license = "exists") =>
              constructed = "ok" /\ FS_LICENSE = LICENSE_GIVEN
        /\ (FREESURFER_HOME /\ freesurfer_license = "missing") =>
              /\ constructed = "FileNotFoundError"
              /\ lookups = <<LICENSE_GIVEN>> /\ LicenseUntouched
        /\ (FREESURFER_HOME /\ freesurfer_license = "none") =>
              /\ LICENSE_ROOT \in licenseFiles =>
                    constructed = "ok" /\ FS_LICENSE = LICENSE_ROOT
              /\ (LICENSE_ROOT \notin licenseFiles /\ LICENSE_HOME \in licenseFiles) =>
                    constructed = "ok" /\ FS_LICENSE = LICENSE_HOME
              /\ (licenseFiles = {LICENSE_USER}) =>
                    constructed = "ok" /\ FS_LICENSE = LICENSE_USER
              /\ licenseFiles = {} =>
                    constructed = "FileNotFoundError" /\ LicenseUntouched

\* a wrapper constructed with no license path where /license.txt is
\* missing and the two other standard locations exist
C20_Witness ==
    /\ mode = "construct" /\ constructed = "ok"
    /\ FREESURFER_HOME /\ freesurfer_license = "none"
    /\ licenseFiles = {LICENSE_HOME, LICENSE_USER}
    /\ FS_LICENSE = LICENSE_HOME
    /\ lookups = <<LICENSE_ROOT, LICENSE_HOME>>


(***************************************************************************)
(* C21.  dataset_description.json and README are created once.             *)
(***************************************************************************)
\* a file of output_dir that exists keeps its content in the step
Kept(path) == path \in DOMAIN outTree => (path \in DOMAIN outTree' /\ outTree'[path] = outTree[path])

\* the calls of _organize_bids_output that got to the two files
CallsThatCreate ==
    {i \in DOMAIN organized :
        \E f \in fsTree :
           f.dir = FsSubjectId(organized[i].subject_id, organized[i].session_label)}

\* C21: a call of _organize_bids_output (and so of
\* _create_dataset_description and _create_readme) leaves an existing
\* dataset_description.json and an existing README with the content they
\* had, over any sequence of calls; after a call that got to them both
\* files exist
C21_CreatedOnce ==
    /\ [][Kept(DATASET_DESCRIPTION) /\ Kept(README)]_vars
    /\ [](CallsThatCreate # {} => {DATASET_DESCRIPTION, README} \subseteq DOMAIN outTree)

\* two calls got to the files and the description of the earlier version is
\* still there, next to a README the first call created
C21_Witness ==
    /\ mode = "organize"
    /\ CallsThatCreate = {1, 2}
    /\ outTree[DATASET_DESCRIPTION] = OldDescription
    /\ outTree[README] # OldReadme


(***************************************************************************)
(* C22.  The shape of the recon-all command.                               *)
(***************************************************************************)
\* C22: the command built for n >= 1 T1w images and any T2w images is
\* recon-all -subjid <id>, then -i <t1> for each T1w image in the order of
\* the list, then -T2 <first T2w> -T2pial once if and only if there is a
\* T2w image, then -all and nothing more; <id> is the subject ID, followed
\* by _ses-<session> when there is a session
C22_CommandShape ==
    (mode = "command" /\ cmdBuilt # << >>) =>
        LET cmd == cmdBuilt[1]
            t1 == cmdArgs.t1w_images
            t2 == cmdArgs.t2w_images
            n == Len(t1)
            id == IF cmdArgs.session_label = EMPTY THEN cmdArgs.subject_id
                  ELSE cmdArgs.subject_id \o USES \o cmdArgs.session_label
        IN /\ Len(cmd) = 3 + 2 * n + (IF t2 = << >> THEN 0 ELSE 3) + 1
           /\ cmd[1] = Lit("recon-all") /\ cmd[2] = Lit("-subjid") /\ cmd[3] = Str(id)
           /\ \A i \in 1..n : cmd[2 + 2 * i] = Lit("-i") /\ cmd[3 + 2 * i] = Str(t1[i])
           /\ Count(cmd, Lit("-i")) = n
           /\ t2 # << >> =>
                 /\ cmd[4 + 2 * n] = Lit("-T2") /\ cmd[5 + 2 * n] = Str(t2[1])
                 /\ cmd[6 + 2 * n] = Lit("-T2pial")
           /\ Count(cmd, Lit("-T2")) = (IF t2 = << >> THEN 0 ELSE 1)
           /\ Count(cmd, Lit("-T2pial")) = (IF t2 = << >> THEN 0 ELSE 1)
           /\ cmd[Len(cmd)] = Lit("-all") /\ Count(cmd, Lit("-all")) = 1

\* a command for a session, three T1w images, one of them twice, and two
\* T2w images
C22_Witness ==
    /\ mode = "command" /\ cmdBuilt # << >>
    /\ cmdArgs.session_label = SA
    /\ cmdArgs.t1w_images = << <<"b">>, <<"a">>, <<"b">> >>
    /\ cmdArgs.t2w_images = << <<"d">>, <<"c">> >>
    /\ Len(cmdBuilt[1]) = 13


(***************************************************************************)
(* C23.  One FreeSurfer subject ID within a call of process_subject.       *)
(***************************************************************************)
\* C23 as stated: while recon-all runs, the ID of the recon-all.done check,
\* which is the key of subject_t1_mapping, is the -subjid of the command,
\* and every entry of results["success"] is the -subjid of a recon-all
\* command the wrapper started
C23_AsStated ==
    /\ pc = "recon" =>
          /\ ps.fs_subject_id = SubjIdOf(ps.cmd)
          /\ SubjIdOf(ps.cmd) \in DOMAIN subject_t1_mapping
    /\ \A i \in 1..Len(results.success) :
          \E j \in 1..Len(reconLog) : results.success[i] = SubjIdOf(reconLog[j])


(***************************************************************************)
(* C24.  The images nidm_conversion looks up.                              *)
(***************************************************************************)
\* C24 as stated: once nidm_conversion has looked up the images of its
\* subject, it holds exactly the lists process_subject recorded in
\* subject_t1_mapping for the run's subject and session, and holds empty
\* lists only when nothing was recorded
C24_AsStated ==
    (mode = "cli" /\ nc.fs_subject_id # EMPTY) =>
        /\ \A k \in DOMAIN subject_t1_mapping :
              /\ nc.t1_images = subject_t1_mapping[k].T1w_images
              /\ nc.t2_images = subject_t1_mapping[k].T2w_images
        /\ nc.t1_images = << >> => DOMAIN subject_t1_mapping = {}


(***************************************************************************)
(* C25.  A subject without T1w image.                                      *)
(***************************************************************************)
\* the dataset has no T1w image for the subject and session of a call
NoT1w(subject_id, session) ==
    /\ StartsWith(subject_id, SUB)
    /\ _find_images(dataset, Slice4(subject_id), "T1w", BidsSession(session)) = << >>

\* C25: in every state, a call of process_subject whose T1w query finds no
\* image, whatever markers exist, starts no recon-all, returns False,
\* appends the subject (with _ses-<session> when there is a session) to
\* results["skipped"] and to no other list, and leaves subject_t1_mapping
\* as it is; and the last call made, when the dataset has no T1w image for
\* it and it did not raise, has started no recon-all and returned False
C25_NoT1wSkipped ==
    /\ \A subject_id \in ApiSubjects \cup {SUB \o L3}, session \in ApiSessions :
          NoT1w(subject_id, session) =>
           \A layoutGiven \in BOOLEAN, queryFails \in {"none", "T2w"},
              markers \in {done, {}, {FsSubjectId(subject_id, session)}} :
             LET r == ProcessSubjectEnter(results, subject_t1_mapping, markers, dataset,
                                          subject_id, layoutGiven, session, TRUE, queryFails)
             IN /\ r.outcome = "False"
                /\ r.frame = NoFrame
                /\ r.results =
                      [results EXCEPT !.skipped =
                         Append(@, subject_id \o (IF session = EMPTY THEN EMPTY
                                                  ELSE USES \o BidsSession(session)))]
                /\ r.mapping = subject_t1_mapping
    /\ (psResult \notin {"none", "raise"} /\ NoT1w(psArgs.subject_id, psArgs.session_label)) =>
          /\ psResult = "False" /\ pc # "recon"
          /\ mode = "cli" => (reconLog = << >> /\ subject_t1_mapping = EmptyMap)

\* a direct call for a session without T1w image whose recon-all.done
\* marker exists has returned False, skipped
C25_Witness ==
    /\ mode = "api" /\ calls = 1 /\ pc = "returned" /\ psResult = "False"
    /\ NoT1w(psArgs.subject_id, psArgs.session_label)
    /\ FsSubjectId(psArgs.subject_id, psArgs.session_label) \in markerAtCall
    /\ results = [NoResults EXCEPT !.skipped = <<SUB \o L1 \o USES \o SA>>]
    /\ reconLog = << >> /\ subject_t1_mapping = EmptyMap


(***************************************************************************)
(* C26.  The SUBJECTS_DIR recon-all works in.                              *)
(***************************************************************************)
\* C26 as stated: every recon-all a wrapper has started saw a SUBJECTS_DIR
\* equal to the freesurfer_dir of that wrapper, whatever wrappers had been
\* constructed before
C26_AsStated ==
    \A i \in DOMAIN reconEnvs :
       reconEnvs[i].SUBJECTS_DIR = FreesurferDirOf(wrappers[reconEnvs[i].wrapper])


(***************************************************************************)
(* C27.  Every run starts the converter on a fresh copy of the input.      *)
(***************************************************************************)
\* the files of the NIDM input directory when the first run started
Original == IF earlier = << >> THEN inSnapshot ELSE earlier[1].inSnapshot

\* the copy in nidm_dir holds what the input file held before the first run
FreshCopy ==
    /\ nc.existing_nidm_file \in DOMAIN Original
    /\ nc.copied_nidm \in DOMAIN outFiles
    /\ outFiles[nc.copied_nidm] = Original[nc.existing_nidm_file]

\* the aggregated graph of this run holds no data of the subject of an
\* earlier run for another subject
NoEarlierData ==
    \A i \in DOMAIN earlier :
       earlier[i].subject # nc.fs_subject_id =>
          DataOf(earlier[i].subject) \notin aggregated[1]

\* C27 as stated: in every run that found an existing NIDM input file the
\* converter starts on a copy with the content the input file had before
\* the first run, and the aggregated output of a later run holds no data of
\* the subject of an earlier run
C27_AsStated ==
    (mode = "cli" /\ Truthy(nc.existing_nidm_file)) =>
        /\ pc = "converter" => FreshCopy
        /\ (pc = "exit" /\ exitReason = "complete" /\ aggregated # << >>) => NoEarlierData

\* C27: the same, for runs whose NIDM input directory does not resolve to
\* nidm_dir, where moreover no run changes the input directory
C27_FreshCopyEveryRun ==
    (mode = "cli" /\ inDir = "separate") =>
        /\ pc # "ready" => inFiles = Original
        /\ Truthy(nc.existing_nidm_file) =>
              /\ pc = "converter" => FreshCopy
              /\ (pc = "exit" /\ exitReason = "complete" /\ aggregated # << >>)
                    => NoEarlierData

\* the converter of a first run for sub-1 added its data to the copy; a
\* second run, for sub-2, has aggregated its own data and the input
C27_Witness ==
    /\ mode = "cli" /\ inDir = "separate" /\ pc = "exit" /\ exitReason = "complete"
    /\ Len(earlier) = 1 /\ earlier[1].subject = SUB \o L1
    /\ Truthy(earlier[1].nc.copied_nidm)
    /\ earlier[1].nc.copied_nidm \in DOMAIN earlier[1].convFiles
    /\ DataOf(SUB \o L1) \in earlier[1].convFiles[earlier[1].nc.copied_nidm].triples
    /\ nc.fs_subject_id = SUB \o L2
    /\ nc.copied_nidm = earlier[1].nc.copied_nidm
    /\ aggregated # << >>
    /\ DataOf(SUB \o L2) \in aggregated[1]
    /\ DataOf(SUB \o L1) \notin aggregated[1]


(***************************************************************************)
(* C28.  New converter outputs are told by their names.                    *)
(***************************************************************************)
\* the run invoked the converter with -o, the converter ended with status
\* zero and left no file in nidm_dir under a name that was not there before
NothingNewByName ==
    /\ mode = "cli" /\ pc = "exit"
    /\ Invocations = 1 /\ exitReason # "converter"
    /\ ~Truthy(nc.existing_nidm_file)
    /\ DOMAIN convFiles \subseteq nc.existing_outputs

\* C28: such a run has finished with status 0 having aggregated nothing:
\* nidm_dir is as the converter left it, so <fs_subject_id>.ttl and
\* <fs_subject_id>.jsonld were neither written nor updated, even when the
\* converter gave a file of nidm_dir a new content
C28_NoNewNames ==
    NothingNewByName =>
        /\ exitCode = "0" /\ exitReason = "complete"
        /\ aggSources = << >> /\ aggregated = << >>
        /\ outFiles = convFiles

\* a second run, for another subject than the first, whose converter
\* rewrote the output file of the first with its own data: nothing is
\* aggregated and the subject has no <fs_subject_id>.ttl
C28_Witness ==
    /\ NothingNewByName /\ exitCode = "0"
    /\ Len(earlier) = 1 /\ earlier[1].subject # nc.fs_subject_id
    /\ OUT_TTL \in DOMAIN earlier[1].left /\ OUT_TTL \in DOMAIN outFiles
    /\ outFiles[OUT_TTL] # earlier[1].left[OUT_TTL]
    /\ WithSuffix(nc.fs_subject_id, EXT_TTL) \notin DOMAIN outFiles

====
